---- MODULE Spec2Model ----
(***************************************************************************)
(* The command / action / check interpretation engine of hopper            *)
(* (hopper/spacecraft.py, hopper/base_cmd.py, hopper/pcad.py,              *)
(* hopper/aca.py, hopper/misc.py).                                         *)
(*                                                                         *)
(* Dates are integers counting units of 10 seconds.  A date string in the  *)
(* Year DOY form is the count itself; on these utils.as_date is the        *)
(* identity and string order is time order.  A date string in another form *)
(* (initial_state may give one) is the count less IsoShift: it differs     *)
(* from the Year DOY string of its instant and sorts before every Year DOY *)
(* string, as 'YYYY-MM-DD ...' sorts before 'YYYY:DDD:...'.  State values  *)
(* are integers: None, True, False and the pointing modes are the named    *)
(* integers below.  Mutable objects stored as state values (maneuver       *)
(* dicts, star catalog tables) live in a heap and are stored by reference, *)
(* as Python stores them.                                                  *)
(***************************************************************************)
EXTENDS Integers, Sequences, FiniteSets, TLC

(***************************************************************************)
(* Bounds of the model.                                                    *)
(***************************************************************************)
MaxCmds == 5         \* length of the initial command list
MaxSamples == 2      \* attitude samples one maneuver propagation returns
MaxUserChecks == 1   \* checks added with add_check before run()
MaxCmdsInitialState == 4   \* length of the command list given with an initial_state
MaxCmdsSecondEngine == 6   \* length of the event list a second engine is given
MaxCmdsB == 6        \* length of a command list made of the second load
MaxCmdsFair == 4     \* length of the initial command list under SpecFair

(***************************************************************************)
(* Program constants.                                                      *)
(***************************************************************************)
None == -1
False == 0
True == 1
NMAN == 1
NPNT == 2
ObsReqLimit == 38000        \* is_obs_req: obsid < 38000
ManStep == 30               \* attitudes(..., step=300)
NpmCheckDelay == 48         \* npm_time + 8 * u.min
LargeDitherAmpl == 30       \* dither_ampl_* < 30
BaseTimeLead == 1           \* base_time: maneuver final date - 10 * u.s
DisableOffset == -6         \* ({'tlmsid': 'AODSDITH'}, -1 * u.min, 10 * u.s)
EnableOffset == 30          \* ({'tlmsid': 'AOENDITH'}, 5 * u.min, 10 * u.s)
SeqTolerance == 1           \* 10 * u.s
AmplStd == 8                \* STATE0 dither_ampl_pitch, dither_ampl_yaw
PeriodPitchStd == 10000     \* STATE0 dither_period_pitch = 1000.0 (tenths of s)
PeriodYawStd == 7071        \* STATE0 dither_period_yaw = 707.1
AmplStdLarge == 20          \* second standard dither set
PeriodPitchStdLarge == 10870
PeriodYawStdLarge == 7686
RtolInv == 1000             \* np.allclose(..., rtol=0.001)
SimposMin == -400000        \* detector: lower limit of HRC-S
SimposMax == 400000         \* detector: upper limit of ACIS-I

StateNames ==
    {"simpos", "obsid", "pitch", "pcad_mode", "auto_npm_transition",
     "maneuver", "q1", "targ_q1", "starcat", "stars", "dither_enabled",
     "dither_ampl_pitch", "dither_ampl_yaw",
     "dither_period_pitch", "dither_period_yaw"}

VARIABLES
    cmds,            \* Spacecraft.cmds: the event list
    i_cmd,           \* Spacecraft.i_cmd: 1-based index of the event being dispatched, 0 before the pass
    date,            \* Spacecraft.date: the current simulation date
    pc,              \* "init", "init_failed", "add_cmd_failed", "main", "checks",
                     \* "done" or "aborted"
    hq,              \* handlers matching the current event that have not run yet
    ops,             \* the statements left of the handler that is running
    checks,          \* Spacecraft.checks
    i_check,         \* number of checks of the check pass already run
    cmd_dates,       \* Spacecraft.cmd_dates
    hist,            \* per state variable: StateValue.values and StateValue.dates
    states,          \* Spacecraft.states: the snapshot timeline
    maneuvers,       \* heap of the maneuver dicts
    starcats,        \* heap of the star catalog tables
    characteristics, \* Spacecraft.characteristics (None or given)
    obsreqs,         \* Spacecraft.obsreqs (None or given)
    err,             \* the exception that ended run(), "" if none
    nuid,            \* object identity: the next fresh event identity
    dispatched,      \* history: identity of each event dispatched, with the date at the dispatch
    ran,             \* history: creation indices of the checks run, with the date at the run
    initial_state,   \* the initial_state argument of Spacecraft(): (key, value) pairs
    starcheck,       \* Spacecraft.starcheck: the starcheck argument of Spacecraft()
    first_run,       \* what the caller kept of a first engine when it made a second one
    started,         \* history: the handlers run() has instantiated and started, with the identity of the event
    class_order      \* the order in which this process iterates over CMD_ACTION_CLASSES, <<>> until it shows

vars == <<cmds, i_cmd, date, pc, hq, ops, checks, i_check, cmd_dates, hist,
          states, maneuvers, starcats, characteristics, obsreqs, err, nuid,
          dispatched, ran, initial_state, starcheck, first_run, started,
          class_order>>

(***************************************************************************)
(* Events.  An event is a dict; the fields a handler of the model reads    *)
(* are the fields of the record, None standing for an absent key.  uid is  *)
(* the identity of the dict object.  The dither fields hold the commanded  *)
(* amplitudes (arcsec) and periods (tenths of a second).                   *)
(***************************************************************************)
Ev(d, ty, tl, ac) ==
    [date |-> d, type |-> ty, tlmsid |-> tl, action |-> ac, id |-> None,
     coefp |-> None, coefy |-> None, ratep |-> None, ratey |-> None,
     q1 |-> None, pitch |-> None, at |-> None, uid |-> 0]


(***************************************************************************)
(* Sequence helpers.                                                       *)
(***************************************************************************)
InsertAt(s, i, e) == SubSeq(s, 1, i - 1) \o <<e>> \o SubSeq(s, i, Len(s))

Last(s) == s[Len(s)]

SeqDates(cs) == [i \in 1..Len(cs) |-> cs[i].date]

(***************************************************************************)
(* np.searchsorted(a, key, side): binary search over a[lo..hi-1] (0-based  *)
(* as numpy counts), returning the 0-based insertion index.                *)
(***************************************************************************)
RECURSIVE bisect(_, _, _, _, _)
bisect(a, key, side, lo, hi) ==
    IF lo >= hi THEN lo
    ELSE LET mid == lo + ((hi - lo) \div 2)
             goLeft == IF side = "right" THEN key < a[mid + 1]
                                         ELSE ~(a[mid + 1] < key)
         IN  IF goLeft THEN bisect(a, key, side, lo, mid)
                       ELSE bisect(a, key, side, mid + 1, hi)

searchsorted(a, key, side) == bisect(a, key, side, 0, Len(a))

(***************************************************************************)
(* utils.as_date: a string of 21 characters is taken to be in the Year DOY *)
(* form and returned as it is; any other is converted to that form.        *)
(***************************************************************************)
IsoShift == 1000

\* the date string of instant t in a form other than Year DOY
Iso(t) == t - IsoShift

as_date(d) == IF d < 0 THEN d + IsoShift ELSE d

(***************************************************************************)
(* StateValue: values and dates are parallel arrays.                       *)
(***************************************************************************)
StateValue_clear == [values |-> <<>>, dates |-> <<>>]

\* C9 mutant: the search takes the leftmost position (side='left'), so a
\* sample dated exactly d is not seen
StateValue_get_left(sv, d) ==
    IF Len(sv.dates) = 0 THEN None
    ELSE LET idx == searchsorted(sv.dates, d, "left") - 1
         IN  IF idx >= 0 THEN sv.values[idx + 1] ELSE None

\* StateValue.__get__ with SC.date = d
StateValue_get(sv, d) ==
    IF Len(sv.dates) = 0 THEN None
    ELSE LET idx == searchsorted(sv.dates, d, "right") - 1
         IN  IF idx >= 0 THEN sv.values[idx + 1] ELSE None

\* C11 mutant: the new sample is put at the head of the history
StateValue_set_prepend(sv, d, value) ==
    [values |-> <<value>> \o sv.values, dates |-> <<d>> \o sv.dates]

\* the part of StateValue.__set__ that appends the sample
StateValue_set(sv, d, value) ==
    [values |-> Append(sv.values, value), dates |-> Append(sv.dates, d)]

\* Spacecraft.set_state_value
set_state_value(st, d, name, value) ==
    LET d1 == as_date(d)
        st1 == IF Last(st).date # d1
               THEN Append(st, [Last(st) EXCEPT !.date = d1])
               ELSE st
    IN  [st1 EXCEPT ![Len(st1)].v[name] = value]

\* getattr(SC, name) with SC.date = d
GetAt(name, d) == StateValue_get(hist[name], d)

\* getattr(SC, name) at the current date
Get(name) == GetAt(name, date)

(***************************************************************************)
(* Spacecraft.add_cmd: the scan from the event after the current one for   *)
(* the first event with a strictly later date.                             *)
(***************************************************************************)
RECURSIVE add_cmd_scan(_, _, _)
add_cmd_scan(cs, cmd, i) ==
    IF i > Len(cs) THEN Append(cs, cmd)
    ELSE IF cmd.date < cs[i].date THEN InsertAt(cs, i, cmd)
    ELSE add_cmd_scan(cs, cmd, i + 1)

\* C2 mutant: the scan starts at the head of the list and stops at the first
\* event that is not earlier
add_cmd_whole_list(cs, ic, cmd) ==
    LET ks == {k \in 1..Len(cs) : cmd.date <= cs[k].date}
    IN  IF ks = {} THEN Append(cs, cmd)
        ELSE InsertAt(cs, CHOOSE k \in ks : \A j \in ks : k <= j, cmd)

\* C4 mutant: the scan stops at the first event that is not earlier, so the
\* new event goes in front of the queued events of its own date
add_cmd_before_equal(cs, ic, cmd) ==
    LET ks == {k \in (ic + 1)..Len(cs) : cmd.date <= cs[k].date}
    IN  IF ks = {} THEN Append(cs, cmd)
        ELSE InsertAt(cs, CHOOSE k \in ks : \A j \in ks : k <= j, cmd)

\* C5 mutant: the new event is always appended
add_cmd_append(cs, ic, cmd) == Append(cs, cmd)

\* C6 mutant: the new event goes to the head of the list, behind the
\* enumeration
add_cmd_at_front(cs, ic, cmd) == InsertAt(cs, 1, cmd)

add_cmd(cs, ic, cmd) == add_cmd_scan(cs, cmd, ic + 1)

\* C1 mutant: no date is refused
add_cmd_accepts_any(cmd, now) == FALSE

\* the guard of add_cmd: the event may not precede the current date
add_cmd_rejects(cmd, now) == cmd.date < now

\* evaluating self.curr_cmd for the error message: Spacecraft never sets
\* curr_cmd, so __getattr__ ends in AttributeError before ValueError is built
add_cmd_error == "AttributeError"

(***************************************************************************)
(* sorted(self.checks, key=lambda x: x.date): a stable sort.               *)
(***************************************************************************)
RECURSIVE insert_by_date(_, _, _)
insert_by_date(s, c, i) ==
    IF i > Len(s) THEN Append(s, c)
    ELSE IF c.date < s[i].date THEN InsertAt(s, i, c)
    ELSE insert_by_date(s, c, i + 1)

\* C8 mutant: the checks stay in the order of their creation
sorted_not(cs) == cs

RECURSIVE sorted(_)
sorted(cs) ==
    IF cs = <<>> THEN <<>>
    ELSE insert_by_date(sorted(SubSeq(cs, 1, Len(cs) - 1)), Last(cs), 1)


(***************************************************************************)
(* The handler registry (CMD_ACTION_CLASSES) and the triggers.  A trigger  *)
(* is a dict of required fields; "" stands for a field the trigger does    *)
(* not name.  FakeAddCmdAction is a handler registered by the caller (as   *)
(* the tests register their own classes): it calls SC.add_cmd with the     *)
(* date its event carries in the field at.  FakeDitherCmd is another: a    *)
(* Cmd with cmd_trigger = {'tlmsid': 'AOENDITH'}, the trigger of            *)
(* DitherEnableCmd, whose run() changes nothing.                           *)
(***************************************************************************)
CMD_ACTION_CLASSES ==
    << "ObsidCmd", "TargQAttCmd", "DitherEnableCmd", "DitherDisableCmd",
       "DitherParmsCmd", "ManeuverCmd", "NmmModeCmd", "NpntModeCmd",
       "AutoNpmWithStarCheckingAction", "DisableNPMAutoTransitionCmd",
       "EnableNPMAutoTransitionCmd", "SetQAttAction", "SetPitchAction",
       "SetManeuverObsid", "StarCatalogCmd", "SetStars", "IdentifyStarcat",
       "AcquisitionStars", "GuideStars", "MonStars", "FakeAddCmdAction",
       "FakeDitherCmd" >>

\* CMD_ACTION_CLASSES is a set of classes and run() iterates over it: the
\* order of the iteration is the one the interpreter gives the set in this
\* process.  Only the relative order of handlers that match one event shows,
\* and only FakeDitherCmd shares its events with another handler.
IterationOrders ==
    { CMD_ACTION_CLASSES,
      <<"FakeDitherCmd">> \o SubSeq(CMD_ACTION_CLASSES, 1, Len(CMD_ACTION_CLASSES) - 1) }

Trig(ty, tl, ac) == [type |-> ty, tlmsid |-> tl, action |-> ac]

cmd_trigger(h) ==
    CASE h = "ObsidCmd" -> Trig("MP_OBSID", "COAOSQID", "")
      [] h = "TargQAttCmd" -> Trig("MP_TARGQUAT", "AOUPTARQ", "")
      [] h = "DitherEnableCmd" -> Trig("", "AOENDITH", "")
      [] h = "DitherDisableCmd" -> Trig("", "AODSDITH", "")
      [] h = "DitherParmsCmd" -> Trig("", "AODITPAR", "")
      [] h = "ManeuverCmd" -> Trig("", "AOMANUVR", "")
      [] h = "NmmModeCmd" -> Trig("", "AONMMODE", "")
      [] h = "NpntModeCmd" -> Trig("", "AONPMODE", "")
      [] h = "DisableNPMAutoTransitionCmd" -> Trig("", "AONM2NPD", "")
      [] h = "EnableNPMAutoTransitionCmd" -> Trig("", "AONM2NPE", "")
      [] h = "StarCatalogCmd" -> Trig("", "AOSTRCAT", "")
      [] h = "AutoNpmWithStarCheckingAction" -> Trig("", "", "auto_npm_with_star_checking")
      [] h = "SetQAttAction" -> Trig("", "", "set_qatt")
      [] h = "SetPitchAction" -> Trig("", "", "set_pitch")
      [] h = "SetManeuverObsid" -> Trig("", "", "set_maneuver_obsid")
      [] h = "SetStars" -> Trig("", "", "aca.set_stars")
      [] h = "IdentifyStarcat" -> Trig("", "", "aca.identify_starcat")
      [] h = "AcquisitionStars" -> Trig("", "", "aca.acquisition_stars")
      [] h = "GuideStars" -> Trig("", "", "aca.guide_stars")
      [] h = "MonStars" -> Trig("", "", "aca.mon_stars")
      [] h = "FakeAddCmdAction" -> Trig("", "", "fake_add_cmd")
      [] h = "FakeDitherCmd" -> Trig("", "AOENDITH", "")

\* CmdActionCheck.trigger
trigger(h, cmd) ==
    \A f \in {"type", "tlmsid", "action"} :
        cmd_trigger(h)[f] # "" => cmd[f] = cmd_trigger(h)[f]

\* C26 mutant: the dispatch stops at the first handler that matches
SelectHandlers_first_only(hs, cmd) ==
    IF \E i \in 1..Len(hs) : trigger(hs[i], cmd)
    THEN << hs[CHOOSE i \in 1..Len(hs) :
                   trigger(hs[i], cmd) /\ \A j \in 1..(i - 1) : ~trigger(hs[j], cmd)] >>
    ELSE <<>>

\* the loop of run() over the registry: every class whose trigger matches
RECURSIVE SelectHandlers(_, _)
SelectHandlers(hs, cmd) ==
    IF hs = <<>> THEN <<>>
    ELSE (IF trigger(Head(hs), cmd) THEN <<Head(hs)>> ELSE <<>>)
         \o SelectHandlers(Tail(hs), cmd)

(***************************************************************************)
(* The statements of a handler that change the engine.                     *)
(***************************************************************************)
NoCmd == Ev(0, "", "", "")

NoMan == [initial |-> [date |-> 0, obsid |-> None, q1 |-> None],
          final |-> [date |-> 0, obsid |-> None, has_obsid |-> FALSE, q1 |-> None],
          dur |-> 0]

Op(o) == [op |-> o, cmd |-> NoCmd, name |-> "", value |-> None,
          man |-> NoMan, exc |-> ""]

OpAddCmd(cmd) == [Op("add_cmd") EXCEPT !.cmd = cmd]
OpSet(name, value) == [Op("set") EXCEPT !.name = name, !.value = value]
OpAddCheck(name, d) == [Op("add_check") EXCEPT !.name = name, !.value = d]
OpRaise(e) == [Op("raise") EXCEPT !.exc = e]
OpSetManeuver(m) == [Op("set_maneuver") EXCEPT !.man = m]

\* Spacecraft.add_action
add_action(action, d) == OpAddCmd(Ev(d, "", "", action))

\* Chandra.Maneuver.attitudes (external): n samples, step apart, from tstart
attitudes(q, targ, tstart, n) ==
    [k \in 1..n |-> [time |-> tstart + (k - 1) * ManStep,
                     q1 |-> IF k = n THEN targ ELSE q,
                     pitch |-> k]]

\* Chandra.Maneuver.attitudes makes quaternions of its two arguments: it
\* raises when the engine has no attitude or no target attitude as of the
\* current date
attitudes_raises == Get("q1") = None \/ Get("targ_q1") = None

RECURSIVE ManeuverSamples(_, _)
ManeuverSamples(atts, k) ==
    IF k > Len(atts) THEN <<>>
    ELSE << OpAddCmd([Ev(atts[k].time, "", "", "set_qatt") EXCEPT !.q1 = atts[k].q1]),
            OpAddCmd([Ev(atts[k].time, "", "", "set_pitch") EXCEPT !.pitch = atts[k].pitch]) >>
         \o ManeuverSamples(atts, k + 1)

\* C16 mutant: the maneuver record is stored at the start and again at the
\* end of the handler
ManeuverCmd_run_twice(cmd, n) ==
    LET atts == attitudes(Get("q1"), Get("targ_q1"), cmd.date, n)
        att0 == atts[1]
        att1 == atts[Len(atts)]
        maneuver == [initial |-> [date |-> att0.time, obsid |-> Get("obsid"),
                                  q1 |-> att0.q1],
                     final |-> [date |-> att1.time, obsid |-> None,
                                has_obsid |-> FALSE, q1 |-> att1.q1],
                     dur |-> att1.time - att0.time]
    IN  IF attitudes_raises THEN << OpRaise("TypeError") >>
        ELSE << OpSetManeuver(maneuver) >>
             \o ManeuverSamples(atts, 1)
             \o << OpSetManeuver(maneuver),
                   add_action("set_maneuver_obsid", maneuver.final.date) >>
             \o (IF Get("auto_npm_transition") = True
                 THEN << add_action("auto_npm_with_star_checking", att1.time) >>
                 ELSE <<>>)

\* pcad.ManeuverCmd.run
ManeuverCmd_run(cmd, n) ==
    LET atts == attitudes(Get("q1"), Get("targ_q1"), cmd.date, n)
        att0 == atts[1]
        att1 == atts[Len(atts)]
        maneuver == [initial |-> [date |-> att0.time, obsid |-> Get("obsid"),
                                  q1 |-> att0.q1],
                     final |-> [date |-> att1.time, obsid |-> None,
                                has_obsid |-> FALSE, q1 |-> att1.q1],
                     dur |-> att1.time - att0.time]
    IN  IF attitudes_raises THEN << OpRaise("TypeError") >>
        ELSE ManeuverSamples(atts, 1)
             \o << OpSetManeuver(maneuver),
                   add_action("set_maneuver_obsid", maneuver.final.date) >>
             \o (IF Get("auto_npm_transition") = True
                 THEN << add_action("auto_npm_with_star_checking", att1.time) >>
                 ELSE <<>>)

\* Spacecraft.is_obs_req: None < 38000 is a TypeError
is_obs_req_raises == Get("obsid") = None
is_obs_req == Get("obsid") < ObsReqLimit

\* C40 mutant: the attitude check is dated one propagation step before the
\* transition
AutoNpmWithStarCheckingAction_run_early_check(cmd) ==
    LET npm_time == cmd.date
    IN  << OpSet("pcad_mode", NPNT) >>
        \o (IF is_obs_req_raises THEN << OpRaise("TypeError") >>
            ELSE (IF is_obs_req
                  THEN << OpAddCheck("attitude_consistent_with_obsreq",
                                     npm_time - ManStep) >>
                  ELSE <<>>)
                 \o << add_action("aca.set_stars", npm_time),
                       add_action("aca.identify_starcat", npm_time),
                       add_action("aca.acquisition_stars", npm_time),
                       add_action("aca.guide_stars", npm_time),
                       add_action("aca.mon_stars", npm_time),
                       add_action("aca.fid_lights", npm_time),
                       OpAddCheck("standard_dither", npm_time + NpmCheckDelay),
                       OpAddCheck("large_dither_cmd_sequence", npm_time + NpmCheckDelay) >>)

\* pcad.AutoNpmWithStarCheckingAction.run
AutoNpmWithStarCheckingAction_run(cmd) ==
    LET npm_time == cmd.date
    IN  << OpSet("pcad_mode", NPNT) >>
        \o (IF is_obs_req_raises THEN << OpRaise("TypeError") >>
            ELSE (IF is_obs_req
                  THEN << OpAddCheck("attitude_consistent_with_obsreq", cmd.date) >>
                  ELSE <<>>)
                 \o << add_action("aca.set_stars", npm_time),
                       add_action("aca.identify_starcat", npm_time),
                       add_action("aca.acquisition_stars", npm_time),
                       add_action("aca.guide_stars", npm_time),
                       add_action("aca.mon_stars", npm_time),
                       add_action("aca.fid_lights", npm_time),
                       OpAddCheck("standard_dither", npm_time + NpmCheckDelay),
                       OpAddCheck("large_dither_cmd_sequence", npm_time + NpmCheckDelay) >>)

\* base_cmd.StateValueCmd.run: self.cmd[key] raises KeyError for an absent key
StateValueCmd_run(state_name, value) ==
    IF value = None THEN << OpRaise("KeyError") >> ELSE << OpSet(state_name, value) >>

\* pcad.DitherParmsCmd.run
DitherParmsCmd_run(cmd) ==
    IF None \in {cmd.coefp, cmd.coefy, cmd.ratep, cmd.ratey}
    THEN << OpRaise("KeyError") >>
    ELSE << OpSet("dither_ampl_pitch", cmd.coefp),
            OpSet("dither_ampl_yaw", cmd.coefy),
            OpSet("dither_period_pitch", cmd.ratep),
            OpSet("dither_period_yaw", cmd.ratey) >>

\* pcad.SetManeuverObsid.run: writes into the dict SC.maneuver refers to
SetManeuverObsid_run ==
    IF Get("maneuver") = None THEN << OpRaise("TypeError") >>
    ELSE << [Op("set_maneuver_obsid") EXCEPT !.value = Get("obsid")] >>

\* aca.IdentifyStarcat.run: iterates SC.starcat and writes its id column
IdentifyStarcat_run ==
    IF Get("starcat") = None THEN << OpRaise("TypeError") >>
    ELSE << Op("identify") >>

\* aca.MonStars.run
MonStars_run ==
    IF Get("starcat") = None THEN << OpRaise("AttributeError") >> ELSE <<>>

\* the run() of handler h for the event cmd; n is the number of samples the
\* attitude propagation returns
HandlerRun(h, cmd, n) ==
    CASE h = "ObsidCmd" -> StateValueCmd_run("obsid", cmd.id)
      [] h = "TargQAttCmd" -> StateValueCmd_run("targ_q1", cmd.q1)
      [] h = "DitherEnableCmd" -> << OpSet("dither_enabled", True) >>
      [] h = "DitherDisableCmd" -> << OpSet("dither_enabled", False) >>
      [] h = "DitherParmsCmd" -> DitherParmsCmd_run(cmd)
      [] h = "ManeuverCmd" -> ManeuverCmd_run(cmd, n)
      [] h = "NmmModeCmd" -> << OpSet("pcad_mode", NMAN) >>
      [] h = "NpntModeCmd" -> << OpSet("pcad_mode", NPNT) >>
      [] h = "DisableNPMAutoTransitionCmd" -> << OpSet("auto_npm_transition", False) >>
      [] h = "EnableNPMAutoTransitionCmd" -> << OpSet("auto_npm_transition", True) >>
      [] h = "StarCatalogCmd" -> << Op("set_starcat") >>
      [] h = "AutoNpmWithStarCheckingAction" -> AutoNpmWithStarCheckingAction_run(cmd)
      [] h = "SetQAttAction" -> StateValueCmd_run("q1", cmd.q1)
      [] h = "SetPitchAction" -> StateValueCmd_run("pitch", cmd.pitch)
      [] h = "SetManeuverObsid" -> SetManeuverObsid_run
      [] h = "SetStars" -> << OpSet("stars", True) >>
      [] h = "IdentifyStarcat" -> IdentifyStarcat_run
      [] h = "AcquisitionStars" -> <<>>
      [] h = "GuideStars" -> <<>>
      [] h = "MonStars" -> MonStars_run
      [] h = "FakeAddCmdAction" -> << OpAddCmd(Ev(cmd.at, "FAKE", "FAKE", "")) >>
      [] h = "FakeDitherCmd" -> <<>>


(***************************************************************************)
(* Checks.  cid is the identity of the check object: its creation index.   *)
(***************************************************************************)
Msg(category, text) == [category |-> category, text |-> text, n |-> None, time |-> None]

\* C7 mutant: a check is born with a message
Check_init_with_message(name, d, cid) ==
    [name |-> name, date |-> d, obsid |-> Get("obsid"),
     messages |-> << Msg("error", "") >>,
     not_applicable |-> FALSE, matches |-> <<>>, cid |-> cid]

\* base_cmd.Check.__init__
Check_init(name, d, cid) ==
    [name |-> name, date |-> d, obsid |-> Get("obsid"), messages |-> <<>>,
     not_applicable |-> FALSE, matches |-> <<>>, cid |-> cid]

\* the outcome of a check's run(): what it leaves on the check, or the exception
Outcome(messages, not_applicable, matches, exc) ==
    [messages |-> messages, not_applicable |-> not_applicable,
     matches |-> matches, exc |-> exc]

\* pcad.AttitudeConsistentWithObsreqCheck.run; the separation between the OR
\* target and the commanded target is computed by external libraries and is
\* carried by the OR entry
SepTolerance == 1

\* C21 mutant: without characteristics the check goes on to the comparison
AttitudeConsistentWithObsreqCheck_run_default_align(c, now) ==
    LET obsid == GetAt("obsid", now)
        entries == {e \in obsreqs : e.obsid = obsid}
    IN  IF obsreqs = {}
        THEN Outcome(<<Msg("warning", "no OR list provided")>>, FALSE, <<>>, "")
        ELSE IF entries = {}
        THEN Outcome(<<Msg("error", "obsid not in OR list")>>, FALSE, <<>>, "")
        ELSE LET obsreq == CHOOSE e \in entries : TRUE
             IN  IF ~obsreq.target_ra
                 THEN Outcome(<<Msg("error", "obsid does not have RA/Dec in OR")>>,
                              FALSE, <<>>, "")
                 ELSE IF obsreq.sep > SepTolerance
                 THEN Outcome(<<Msg("error", "science target attitude different from OR list")>>,
                              FALSE, <<>>, "")
                 ELSE Outcome(<<>>, FALSE, <<>>, "")

\* Spacecraft.detector: the instrument whose range holds simpos; a simpos in
\* no range is a ValueError, and None cannot be compared (TypeError)
detector_raises(simpos) ==
    IF simpos = None THEN "TypeError"
    ELSE IF SimposMin < simpos /\ simpos <= SimposMax THEN ""
    ELSE "ValueError"

AttitudeConsistentWithObsreqCheck_run(c, now) ==
    LET obsid == GetAt("obsid", now)
        entries == {e \in obsreqs : e.obsid = obsid}
    IN  IF characteristics = None
        THEN Outcome(<<Msg("warning", "no Characteristics provided")>>, FALSE, <<>>, "")
        ELSE IF obsreqs = {}
        THEN Outcome(<<Msg("warning", "no OR list provided")>>, FALSE, <<>>, "")
        ELSE IF entries = {}
        THEN Outcome(<<Msg("error", "obsid not in OR list")>>, FALSE, <<>>, "")
        ELSE LET obsreq == CHOOSE e \in entries : TRUE
             IN  IF ~obsreq.target_ra
                 THEN Outcome(<<Msg("error", "obsid does not have RA/Dec in OR")>>,
                              FALSE, <<>>, "")
                 ELSE IF detector_raises(GetAt("simpos", now)) # ""
                 THEN Outcome(<<>>, FALSE, <<>>, detector_raises(GetAt("simpos", now)))
                 ELSE IF obsreq.sep > SepTolerance
                 THEN Outcome(<<Msg("error", "science target attitude different from OR list")>>,
                              FALSE, <<>>, "")
                 ELSE Outcome(<<>>, FALSE, <<>>, "")

Abs(x) == IF x < 0 THEN -x ELSE x

\* np.allclose(a, b, rtol=0.001)
allclose(a, b) == RtolInv * Abs(a - b) <= Abs(b)

\* pcad.StandardDitherCheck.run
StandardDitherCheck_run(c, now) ==
    LET standards ==
            << [dither_period_pitch |-> PeriodPitchStdLarge,
                dither_period_yaw |-> PeriodYawStdLarge,
                dither_ampl_pitch |-> AmplStdLarge,
                dither_ampl_yaw |-> AmplStdLarge],
               [dither_period_pitch |-> PeriodPitchStd,
                dither_period_yaw |-> PeriodYawStd,
                dither_ampl_pitch |-> AmplStd,
                dither_ampl_yaw |-> AmplStd] >>
        colnames == {"dither_period_pitch", "dither_period_yaw",
                     "dither_ampl_pitch", "dither_ampl_yaw"}
        found == \E i \in 1..Len(standards) :
                    \A name \in colnames :
                        allclose(GetAt(name, now), standards[i][name])
    IN  IF found THEN Outcome(<<>>, FALSE, <<>>, "")
        ELSE Outcome(<<Msg("warning", "non-standard dither amplitude or period")>>,
                     FALSE, <<>>, "")

\* C12 mutant: any number of matches other than one is reported as an error
match_cmd_always_error(tlmsid, time_offset, tolerance, base_time) ==
    LET time == base_time + time_offset
        i_min == searchsorted(cmd_dates, time - tolerance, "left")
        i_max == searchsorted(cmd_dates, time + tolerance, "right") + 1
        hi == IF i_max < Len(cmds) THEN i_max ELSE Len(cmds)
        matches == SelectSeq(SubSeq(cmds, i_min + 1, hi),
                             LAMBDA cmd : cmd.tlmsid = tlmsid)
    IN  [matches |-> [i \in 1..Len(matches) |-> matches[i].uid],
         messages |-> IF Len(matches) # 1
                      THEN << [category |-> "error", text |-> tlmsid,
                               n |-> Len(matches), time |-> time] >>
                      ELSE <<>>]

\* base_cmd.CmdSequenceCheck.match_cmd: the events of cmds[i_min:i_max] that
\* satisfy cmd_match, and the message when their number is not one
match_cmd(tlmsid, time_offset, tolerance, base_time) ==
    LET time == base_time + time_offset
        min_date == time - tolerance
        max_date == time + tolerance
        i_min == searchsorted(cmd_dates, min_date, "left")
        i_max == searchsorted(cmd_dates, max_date, "right") + 1
        hi == IF i_max < Len(cmds) THEN i_max ELSE Len(cmds)
        slice == SubSeq(cmds, i_min + 1, hi)
        matches == SelectSeq(slice, LAMBDA cmd : cmd.tlmsid = tlmsid)
        n_match == Len(matches)
    IN  [matches |-> [i \in 1..n_match |-> matches[i].uid],
         messages |-> IF n_match # 1
                      THEN << [category |-> IF n_match = 0 THEN "error" ELSE "warning",
                               text |-> tlmsid, n |-> n_match, time |-> time] >>
                      ELSE <<>>]

\* pcad.LargeDitherCmdSequenceCheck.cmd_sequence
cmd_sequence ==
    << [tlmsid |-> "AODSDITH", time_offset |-> DisableOffset, tolerance |-> SeqTolerance],
       [tlmsid |-> "AOENDITH", time_offset |-> EnableOffset, tolerance |-> SeqTolerance] >>

\* the cmd_sequence of a CmdSequenceCheck subclass the caller registers, as
\* the test suite does: a narrow window before the check for a dither
\* parameter command, a wide one for the maneuver commands, and a narrow one
\* after the check for the dither enable
fake_cmd_sequence ==
    << [tlmsid |-> "AODITPAR", time_offset |-> -18, tolerance |-> 1],
       [tlmsid |-> "AOMANUVR", time_offset |-> -33, tolerance |-> 15],
       [tlmsid |-> "AOENDITH", time_offset |-> 12, tolerance |-> 1] >>

\* base_cmd.CmdSequenceCheck.run over the class's cmd_sequence
RECURSIVE CmdSequenceCheck_run(_, _, _, _)
CmdSequenceCheck_run(seq, base_time, k, acc) ==
    IF k > Len(seq) THEN acc
    ELSE LET m == match_cmd(seq[k].tlmsid, seq[k].time_offset,
                            seq[k].tolerance, base_time)
         IN  CmdSequenceCheck_run(seq, base_time, k + 1,
                 Outcome(acc.messages \o m.messages, FALSE,
                         acc.matches \o m.matches, ""))

\* base_cmd.CmdSequenceCheck.base_time: the check's own date
FakeCmdSequenceCheck_run(c, now) ==
    CmdSequenceCheck_run(fake_cmd_sequence, c.date, 1, Outcome(<<>>, FALSE, <<>>, ""))

\* C14 mutant: the check is not applicable as soon as one amplitude is small
LargeDitherCmdSequenceCheck_run_either(c, now) ==
    IF GetAt("dither_ampl_pitch", now) < LargeDitherAmpl
       \/ GetAt("dither_ampl_yaw", now) < LargeDitherAmpl
    THEN Outcome(<<>>, TRUE, <<>>, "")
    ELSE IF GetAt("maneuver", now) = None
    THEN Outcome(<<>>, FALSE, <<>>, "TypeError")
    ELSE CmdSequenceCheck_run(cmd_sequence,
             maneuvers[GetAt("maneuver", now)].final.date - BaseTimeLead,
             1, Outcome(<<>>, FALSE, <<>>, ""))

\* pcad.LargeDitherCmdSequenceCheck.run and base_time
LargeDitherCmdSequenceCheck_run(c, now) ==
    IF GetAt("dither_ampl_pitch", now) < LargeDitherAmpl
       /\ GetAt("dither_ampl_yaw", now) < LargeDitherAmpl
    THEN Outcome(<<>>, TRUE, <<>>, "")
    ELSE IF GetAt("maneuver", now) = None
    THEN Outcome(<<>>, FALSE, <<>>, "TypeError")
    ELSE CmdSequenceCheck_run(cmd_sequence,
             maneuvers[GetAt("maneuver", now)].final.date - BaseTimeLead,
             1, Outcome(<<>>, FALSE, <<>>, ""))

\* check.run() with SC.date = now
Check_run(c, now) ==
    CASE c.name = "attitude_consistent_with_obsreq" -> AttitudeConsistentWithObsreqCheck_run(c, now)
      [] c.name = "standard_dither" -> StandardDitherCheck_run(c, now)
      [] c.name = "large_dither_cmd_sequence" -> LargeDitherCmdSequenceCheck_run(c, now)
      [] c.name = "fake_cmd_sequence" -> FakeCmdSequenceCheck_run(c, now)


(***************************************************************************)
(* Inputs.  The initial command list is a sub-list, of at most MaxCmds     *)
(* commands, of the load below, which is sorted by date.                   *)
(***************************************************************************)
Load ==
    << [Ev(0, "MP_OBSID", "COAOSQID", "") EXCEPT !.id = 100],
       Ev(0, "COMMAND_SW", "AONM2NPE", ""),
       Ev(0, "MP_STARCAT", "AOSTRCAT", ""),
       Ev(0, "COMMAND_SW", "AOMANUVR", ""),
       [Ev(30, "MP_DITHER", "AODITPAR", "") EXCEPT
            !.coefp = 40, !.coefy = 8, !.ratep = 26470, !.ratey = 10000],
       [Ev(30, "MP_OBSID", "COAOSQID", "") EXCEPT !.id = 50000],
       Ev(30, "COMMAND_SW", "AOMANUVR", ""),
       [Ev(30, "", "", "fake_add_cmd") EXCEPT !.at = 0],
       [Ev(60, "MP_DITHER", "AODITPAR", "") EXCEPT
            !.coefp = 8, !.coefy = 8, !.ratep = 10000, !.ratey = 7071],
       Ev(60, "COMMAND_SW", "AOENDITH", "") >>

RECURSIVE SubList(_, _, _)
SubList(s, sel, i) ==
    IF i > Len(s) THEN <<>>
    ELSE (IF i \in sel THEN <<s[i]>> ELSE <<>>) \o SubList(s, sel, i + 1)

WithUids(cs) == [i \in 1..Len(cs) |-> [cs[i] EXCEPT !.uid = i]]

\* the dates of the checks the caller adds before run()
UserCheckDates == {48}

\* the checks the caller adds before run()
UserCheckNames == {"standard_dither", "fake_cmd_sequence"}

\* the dates at which the caller reads the state after run()
ReadDates == {0, 30, 48, 60, 90}

\* the OR list read by the caller: one science request
ORList == {[obsid |-> 100, target_ra |-> TRUE, sep |-> 4]}

\* the characteristics and the OR list the caller gives: both, the OR list
\* alone, the characteristics alone
Contexts == { <<True, ORList>>, <<None, ORList>>, <<True, {}>> }

\* the initial_state arguments of the caller: none; a date later than the
\* first command; the date of the first command in a form other than Year
\* DOY with an override of a key of STATE0 (a SIM position that no
\* instrument has), as the tests give a date and a SIM position; and ones
\* with a key that is no state variable
InitialStates ==
    { {}, {<<"date", 30>>}, {<<"date", Iso(0)>>, <<"simpos", 500000>>},
      {<<"sim_z", 75624>>}, {<<"simpos", 75624>>, <<"sim_z", 75624>>} }

\* STATE0['date']: the default precedes every command
STATE0_date == 0

\* STATE0, less 'date'
STATE0 ==
    [n \in {"q1", "targ_q1", "simpos", "dither_enabled", "dither_ampl_pitch",
            "dither_ampl_yaw", "dither_period_pitch", "dither_period_yaw"} |->
        CASE n = "dither_enabled" -> True
          [] n \in {"dither_ampl_pitch", "dither_ampl_yaw"} -> AmplStd
          [] n = "dither_period_pitch" -> PeriodPitchStd
          [] n = "dither_period_yaw" -> PeriodYawStd
          [] OTHER -> 0]

\* state0.pop('date')
state0_date(is) ==
    IF \E kv \in is : kv[1] = "date"
    THEN (CHOOSE kv \in is : kv[1] = "date")[2]
    ELSE STATE0_date

\* state0 = copy(STATE0); state0.update(initial_state or {}), less 'date'
state0(is) ==
    [n \in (DOMAIN STATE0 \cup {kv[1] : kv \in is}) \ {"date"} |->
        IF \E kv \in is : kv[1] = n
        THEN (CHOOSE kv \in is : kv[1] = n)[2]
        ELSE STATE0[n]]

\* C20 mutant: a key that is no state variable is passed over
unknown_keys_none(is) == {}

\* the keys of state0 that are not StateValue attributes of the class
unknown_keys(is) == {n \in DOMAIN state0(is) : n \notin StateNames}

\* nothing kept of a first engine
NoFirstRun ==
    [done |-> FALSE, user |-> <<>>, checks |-> <<>>, maneuvers |-> <<>>,
     hist |-> [n \in StateNames |-> StateValue_clear]]

\* the histories and the zeroth snapshot as __init__ leaves them: the
\* histories are cleared, the snapshot is taken with every variable None,
\* then every key of state0 is set at the initial date (the keys of STATE0
\* come first, so all of them are set before an unknown key is met)
InitHist(d, is) ==
    [n \in StateNames |->
        IF n \in DOMAIN state0(is)
        THEN StateValue_set(StateValue_clear, d, state0(is)[n])
        ELSE StateValue_clear]

InitStates(d, is) ==
    LET zeroth == [date |-> d, v |-> [n \in StateNames |-> None]]
        seeded == [n \in StateNames |->
                     IF n \in DOMAIN state0(is) THEN state0(is)[n] ELSE None]
    IN  IF as_date(d) # d
        THEN << zeroth, [date |-> as_date(d), v |-> seeded] >>
        ELSE << [date |-> d, v |-> seeded] >>

(***************************************************************************)
(* Spacecraft.__init__.  A key of state0 that is no state variable ends    *)
(* the constructor with AttributeError: no engine is returned.             *)
(***************************************************************************)
Init ==
    /\ \E sel \in SUBSET (1..Len(Load)) :
          /\ Cardinality(sel) <= MaxCmds
          /\ cmds = WithUids(SubList(Load, sel, 1))
    /\ nuid = Len(cmds) + 1
    /\ initial_state \in InitialStates
    /\ starcheck = FALSE
    /\ date = state0_date(initial_state)
    /\ initial_state # {} => Len(cmds) <= MaxCmdsInitialState
    /\ \E ctx \in Contexts :
          /\ initial_state # {} => ctx = <<True, ORList>>
          /\ characteristics = ctx[1]
          /\ obsreqs = ctx[2]
    /\ hist = InitHist(date, initial_state)
    /\ states = InitStates(date, initial_state)
    /\ i_cmd = 0
    /\ IF unknown_keys(initial_state) # {}
       THEN pc = "init_failed" /\ err = "AttributeError"
       ELSE pc = "init" /\ err = ""
    /\ hq = <<>>
    /\ ops = <<>>
    /\ checks = <<>>
    /\ i_check = 0
    /\ cmd_dates = <<>>
    /\ maneuvers = <<>>
    /\ starcats = <<>>
    /\ dispatched = <<>>
    /\ ran = <<>>
    /\ first_run = NoFirstRun
    /\ started = <<>>
    /\ class_order = <<>>

(***************************************************************************)
(* Spacecraft.add_check, called before run().                              *)
(***************************************************************************)
AddCheckBeforeRun ==
    /\ pc = "init"
    /\ Len(checks) < MaxUserChecks
    /\ \E name \in UserCheckNames, d \in UserCheckDates :
          checks' = Append(checks, Check_init(name, d, Len(checks) + 1))
    /\ UNCHANGED <<cmds, i_cmd, date, pc, hq, ops, i_check, cmd_dates, hist,
                   states, maneuvers, starcats, characteristics, obsreqs, err,
                   nuid, dispatched, ran>>
    /\ UNCHANGED <<starcheck, initial_state, first_run, started, class_order>>

(***************************************************************************)
(* Spacecraft.run: entry, then the main pass.                              *)
(***************************************************************************)
Run ==
    /\ pc = "init"
    /\ pc' = "main"
    /\ UNCHANGED <<cmds, i_cmd, date, hq, ops, checks, i_check, cmd_dates, hist,
                   states, maneuvers, starcats, characteristics, obsreqs, err,
                   nuid, dispatched, ran>>
    /\ first_run' = [first_run EXCEPT !.user = checks]
    /\ UNCHANGED <<starcheck, initial_state, started, class_order>>

\* the next event of the enumeration: its date becomes the current date and
\* the handlers whose trigger matches are collected
Dispatch ==
    /\ pc = "main"
    /\ hq = <<>>
    /\ ops = <<>>
    /\ i_cmd < Len(cmds)
    /\ i_cmd' = i_cmd + 1
    /\ date' = cmds[i_cmd + 1].date
    /\ LET matching == SelectHandlers(CMD_ACTION_CLASSES, cmds[i_cmd + 1])
       IN  \E order \in (IF class_order = <<>> /\ Len(matching) > 1
                         THEN IterationOrders
                         ELSE {class_order}) :
              /\ class_order' = order
              /\ hq' = IF order = <<>> THEN matching
                                       ELSE SelectHandlers(order, cmds[i_cmd + 1])
    /\ dispatched' = Append(dispatched, [uid |-> cmds[i_cmd + 1].uid, date |-> date'])
    /\ UNCHANGED <<cmds, pc, ops, checks, i_check, cmd_dates, hist, states,
                   maneuvers, starcats, characteristics, obsreqs, err, nuid, ran>>
    /\ UNCHANGED <<starcheck, initial_state, first_run, started>>

\* the number of samples Chandra.Maneuver.attitudes returns for the maneuver
\* about to be propagated; a second engine on the same commands gets what
\* the first one got
ManeuverSampleCounts ==
    LET k == Len(hist["maneuver"].values) + 1
    IN  IF first_run.done /\ k <= Len(first_run.maneuvers)
        THEN {first_run.maneuvers[k].dur \div ManStep + 1}
        ELSE 1..MaxSamples

\* cmd_action = cmd_action_class(cmd); cmd_action.run() begins
StartHandler ==
    /\ pc = "main"
    /\ ops = <<>>
    /\ hq # <<>>
    /\ \E n \in (IF Head(hq) = "ManeuverCmd" THEN ManeuverSampleCounts ELSE {1}) :
          ops' = HandlerRun(Head(hq), cmds[i_cmd], n)
    /\ hq' = Tail(hq)
    /\ started' = Append(started, [uid |-> cmds[i_cmd].uid, h |-> Head(hq)])
    /\ UNCHANGED <<cmds, i_cmd, date, pc, checks, i_check, cmd_dates, hist,
                   states, maneuvers, starcats, characteristics, obsreqs, err,
                   nuid, dispatched, ran>>
    /\ UNCHANGED <<starcheck, initial_state, first_run, class_order>>

\* C19 mutant: the exception is noted and the pass goes on
Abort_swallowed(e) ==
    /\ pc' = pc
    /\ err' = e
    /\ hq' = <<>>
    /\ ops' = <<>>

\* an exception leaves run()
Abort(e) ==
    /\ pc' = "aborted"
    /\ err' = e
    /\ hq' = <<>>
    /\ ops' = <<>>

\* a handler calls SC.add_cmd (or SC.add_action)
DoAddCmd ==
    /\ pc = "main"
    /\ ops # <<>>
    /\ Head(ops).op = "add_cmd"
    /\ IF add_cmd_rejects(Head(ops).cmd, date)
       THEN /\ Abort(add_cmd_error)
            /\ UNCHANGED <<cmds, nuid>>
       ELSE /\ cmds' = add_cmd(cmds, i_cmd, [Head(ops).cmd EXCEPT !.uid = nuid])
            /\ nuid' = nuid + 1
            /\ ops' = Tail(ops)
            /\ UNCHANGED <<pc, err, hq>>
    /\ UNCHANGED <<i_cmd, date, checks, i_check, cmd_dates, hist, states,
                   maneuvers, starcats, characteristics, obsreqs, dispatched, ran>>
    /\ UNCHANGED <<starcheck, initial_state, first_run, started, class_order>>

\* StateValue.__set__ at the current date, with set_state_value
SetState(name, value) ==
    /\ hist' = [hist EXCEPT ![name] = StateValue_set(@, date, value)]
    /\ states' = set_state_value(states, date, name, value)

\* a handler sets a state variable
DoSet ==
    /\ pc = "main"
    /\ ops # <<>>
    /\ Head(ops).op = "set"
    /\ SetState(Head(ops).name, Head(ops).value)
    /\ ops' = Tail(ops)
    /\ UNCHANGED <<cmds, i_cmd, date, pc, hq, checks, i_check, cmd_dates,
                   maneuvers, starcats, characteristics, obsreqs, err, nuid,
                   dispatched, ran>>
    /\ UNCHANGED <<starcheck, initial_state, first_run, started, class_order>>

\* ManeuverCmd: SC.maneuver = maneuver (a new dict)
DoSetManeuver ==
    /\ pc = "main"
    /\ ops # <<>>
    /\ Head(ops).op = "set_maneuver"
    /\ maneuvers' = Append(maneuvers, Head(ops).man)
    /\ SetState("maneuver", Len(maneuvers) + 1)
    /\ ops' = Tail(ops)
    /\ UNCHANGED <<cmds, i_cmd, date, pc, hq, checks, i_check, cmd_dates,
                   starcats, characteristics, obsreqs, err, nuid, dispatched, ran>>
    /\ UNCHANGED <<starcheck, initial_state, first_run, started, class_order>>

\* SetManeuverObsid: self.SC.maneuver['final']['obsid'] = self.SC.obsid
DoSetManeuverObsid ==
    /\ pc = "main"
    /\ ops # <<>>
    /\ Head(ops).op = "set_maneuver_obsid"
    /\ maneuvers' = [maneuvers EXCEPT
                        ![Get("maneuver")].final.obsid = Head(ops).value,
                        ![Get("maneuver")].final.has_obsid = TRUE]
    /\ ops' = Tail(ops)
    /\ UNCHANGED <<cmds, i_cmd, date, pc, hq, checks, i_check, cmd_dates, hist,
                   states, starcats, characteristics, obsreqs, err, nuid,
                   dispatched, ran>>
    /\ UNCHANGED <<starcheck, initial_state, first_run, started, class_order>>

\* StarCatalogCmd: SC.starcat = starcat (a new table, ids masked)
DoSetStarcat ==
    /\ pc = "main"
    /\ ops # <<>>
    /\ Head(ops).op = "set_starcat"
    /\ starcats' = Append(starcats, [identified |-> FALSE])
    /\ SetState("starcat", Len(starcats) + 1)
    /\ ops' = Tail(ops)
    /\ UNCHANGED <<cmds, i_cmd, date, pc, hq, checks, i_check, cmd_dates,
                   maneuvers, characteristics, obsreqs, err, nuid, dispatched, ran>>
    /\ UNCHANGED <<starcheck, initial_state, first_run, started, class_order>>

\* IdentifyStarcat: sc.starcat['id'] = ids
DoIdentify ==
    /\ pc = "main"
    /\ ops # <<>>
    /\ Head(ops).op = "identify"
    /\ starcats' = [starcats EXCEPT ![Get("starcat")].identified = TRUE]
    /\ ops' = Tail(ops)
    /\ UNCHANGED <<cmds, i_cmd, date, pc, hq, checks, i_check, cmd_dates, hist,
                   states, maneuvers, characteristics, obsreqs, err, nuid,
                   dispatched, ran>>
    /\ UNCHANGED <<starcheck, initial_state, first_run, started, class_order>>

\* a handler calls SC.add_check
DoAddCheck ==
    /\ pc = "main"
    /\ ops # <<>>
    /\ Head(ops).op = "add_check"
    /\ checks' = Append(checks, Check_init(Head(ops).name, Head(ops).value,
                                           Len(checks) + 1))
    /\ ops' = Tail(ops)
    /\ UNCHANGED <<cmds, i_cmd, date, pc, hq, i_check, cmd_dates, hist, states,
                   maneuvers, starcats, characteristics, obsreqs, err, nuid,
                   dispatched, ran>>
    /\ UNCHANGED <<starcheck, initial_state, first_run, started, class_order>>

\* a handler raises
DoRaise ==
    /\ pc = "main"
    /\ ops # <<>>
    /\ Head(ops).op = "raise"
    /\ Abort(Head(ops).exc)
    /\ UNCHANGED <<cmds, i_cmd, date, checks, i_check, cmd_dates, hist, states,
                   maneuvers, starcats, characteristics, obsreqs, nuid,
                   dispatched, ran>>
    /\ UNCHANGED <<starcheck, initial_state, first_run, started, class_order>>

(***************************************************************************)
(* Spacecraft.run: after the main pass, cmd_dates is built and the checks  *)
(* are sorted; then each check is run at its own date.                     *)
(***************************************************************************)
\* C39 mutant: the array of dates is made of the events before the last one
EndMainPass_dates_short ==
    /\ pc = "main"
    /\ hq = <<>>
    /\ ops = <<>>
    /\ i_cmd = Len(cmds)
    /\ cmd_dates' = SeqDates(SubSeq(cmds, 1, Len(cmds) - 1))
    /\ checks' = sorted(checks)
    /\ i_check' = 0
    /\ pc' = "checks"
    /\ UNCHANGED <<cmds, i_cmd, date, hq, ops, hist, states, maneuvers, starcats,
                   characteristics, obsreqs, err, nuid, dispatched, ran>>
    /\ UNCHANGED <<starcheck, initial_state, first_run, started, class_order>>

EndMainPass ==
    /\ pc = "main"
    /\ hq = <<>>
    /\ ops = <<>>
    /\ i_cmd = Len(cmds)
    /\ cmd_dates' = SeqDates(cmds)
    /\ checks' = sorted(checks)
    /\ i_check' = 0
    /\ pc' = "checks"
    /\ UNCHANGED <<cmds, i_cmd, date, hq, ops, hist, states, maneuvers, starcats,
                   characteristics, obsreqs, err, nuid, dispatched, ran>>
    /\ UNCHANGED <<starcheck, initial_state, first_run, started, class_order>>

\* C10 mutant: the check pass leaves the date where the main pass ended
check_pass_date_stale(c) == date

\* the date the check pass sets before it runs check c
check_pass_date(c) == c.date

\* C29 mutant: the run() of a check does not return
RunCheck_never_returns ==
    /\ pc = "checks"
    /\ i_check < Len(checks)
    /\ UNCHANGED vars

RunCheck ==
    /\ pc = "checks"
    /\ i_check < Len(checks)
    /\ LET c == checks[i_check + 1]
           r == Check_run(c, date')
       IN  /\ date' = check_pass_date(c)
           /\ ran' = Append(ran, [cid |-> c.cid, date |-> date'])
           /\ IF r.exc # ""
              THEN /\ Abort(r.exc)
                   /\ UNCHANGED <<checks, i_check>>
              ELSE /\ checks' = [checks EXCEPT ![i_check + 1] =
                                    [c EXCEPT !.messages = c.messages \o r.messages,
                                              !.not_applicable = r.not_applicable,
                                              !.matches = r.matches]]
                   /\ i_check' = i_check + 1
                   /\ UNCHANGED <<pc, err, hq, ops>>
    /\ UNCHANGED <<cmds, i_cmd, cmd_dates, hist, states, maneuvers, starcats,
                   characteristics, obsreqs, nuid, dispatched>>
    /\ UNCHANGED <<starcheck, initial_state, first_run, started, class_order>>

EndRun ==
    /\ pc = "checks"
    /\ i_check = Len(checks)
    /\ pc' = "done"
    /\ UNCHANGED <<cmds, i_cmd, date, hq, ops, checks, i_check, cmd_dates, hist,
                   states, maneuvers, starcats, characteristics, obsreqs, err,
                   nuid, dispatched, ran>>
    /\ UNCHANGED <<starcheck, initial_state, first_run, started, class_order>>

\* after run() the caller sets sc.date to read the state as of that date
SetDate ==
    /\ pc = "done"
    /\ \E d \in ReadDates : date' = d
    /\ UNCHANGED <<cmds, i_cmd, pc, hq, ops, checks, i_check, cmd_dates, hist,
                   states, maneuvers, starcats, characteristics, obsreqs, err,
                   nuid, dispatched, ran>>
    /\ UNCHANGED <<starcheck, initial_state, first_run, started, class_order>>

Next ==
    \/ AddCheckBeforeRun
    \/ Run
    \/ Dispatch
    \/ StartHandler
    \/ DoAddCmd
    \/ DoSet
    \/ DoSetManeuver
    \/ DoSetManeuverObsid
    \/ DoSetStarcat
    \/ DoIdentify
    \/ DoAddCheck
    \/ DoRaise
    \/ EndMainPass
    \/ RunCheck
    \/ EndRun
    \/ SetDate

Spec == Init /\ [][Next]_vars

(***************************************************************************)
(* A second engine.  The caller, holding a first engine whose run() has    *)
(* returned, makes sc2 = Spacecraft(cmds, ...) with the arguments it gave  *)
(* the first one, adds the checks it added before, and calls sc2.run().    *)
(* cmds is the list object the first engine was given, as run() left it.   *)
(* __init__ clears the StateValue descriptors, which are attributes of the *)
(* class: every engine reads and writes the same histories.                *)
(***************************************************************************)
RunAgain ==
    /\ pc = "done"
    /\ ~first_run.done
    /\ Len(cmds) <= MaxCmdsSecondEngine
    /\ first_run' = [first_run EXCEPT !.done = TRUE, !.checks = checks,
                                      !.maneuvers = maneuvers, !.hist = hist]
    /\ hist' = InitHist(states[1].date, initial_state)
    /\ states' = InitStates(states[1].date, initial_state)
    /\ date' = states[1].date
    /\ checks' = [k \in 1..Len(first_run.user) |->
                     Check_init(first_run.user[k].name, first_run.user[k].date, k)]
    /\ i_cmd' = 0
    /\ i_check' = 0
    /\ cmd_dates' = <<>>
    /\ maneuvers' = <<>>
    /\ starcats' = <<>>
    /\ dispatched' = <<>>
    /\ ran' = <<>>
    /\ started' = <<>>
    /\ pc' = "main"
    /\ UNCHANGED <<cmds, hq, ops, characteristics, obsreqs, err, nuid,
                   starcheck, initial_state, class_order>>

NextTwo ==
    \/ Next
    \/ RunAgain

SpecTwo == Init /\ [][NextTwo]_vars

(***************************************************************************)
(* The steps of run().  run() is sequential code: once it has been called, *)
(* the statement it has reached is executed.  The calls of the caller      *)
(* (add_check, run, the reads after run) may or may not come.              *)
(***************************************************************************)
RunStep ==
    \/ Dispatch
    \/ StartHandler
    \/ DoAddCmd
    \/ DoSet
    \/ DoSetManeuver
    \/ DoSetManeuverObsid
    \/ DoSetStarcat
    \/ DoIdentify
    \/ DoAddCheck
    \/ DoRaise
    \/ EndMainPass
    \/ RunCheck
    \/ EndRun

\* the events of Load the lists of SpecFair are made of: the first obsid
\* command, the three commands of the first maneuver, the first dither
\* parameters, the fake_add_cmd action and the dither enable
FairEvents == {Load[k] : k \in {1, 2, 3, 4, 5, 8, 10}}

\* the engines made without initial_state, with characteristics and OR list
InitFair ==
    /\ Init
    /\ Len(cmds) <= MaxCmdsFair
    /\ \A i \in 1..Len(cmds) : [cmds[i] EXCEPT !.uid = 0] \in FairEvents
    /\ initial_state = {}
    /\ characteristics = True
    /\ obsreqs = ORList

SpecFair == InitFair /\ [][Next]_vars /\ WF_vars(RunStep)

(***************************************************************************)
(* The caller goes on using the engine after run() has returned: it calls  *)
(* add_check, add_cmd, or sets a state variable.  None of the three tests  *)
(* whether run() has been called: they do what they do during a run.  Each *)
(* call is made once at most.                                              *)
(***************************************************************************)
\* the event the caller adds after run(), and the obsid it writes
AfterCmd == Ev(90, "COMMAND_SW", "AOENDITH", "")
AfterObsid == 200

\* Spacecraft.add_check, called after run()
AddCheckAfterRun ==
    /\ pc = "done"
    /\ Len(checks) = i_check
    /\ \E name \in UserCheckNames, d \in UserCheckDates :
          checks' = Append(checks, Check_init(name, d, Len(checks) + 1))
    /\ UNCHANGED <<cmds, i_cmd, date, pc, hq, ops, i_check, cmd_dates, hist,
                   states, maneuvers, starcats, characteristics, obsreqs, err,
                   nuid, dispatched, ran>>
    /\ UNCHANGED <<starcheck, initial_state, first_run, started, class_order>>

\* Spacecraft.add_cmd, called after run(): the guard compares with the date
\* the engine was left at, the scan starts after the last event dispatched
AddCmdAfterRun ==
    /\ pc = "done"
    /\ Len(cmds) = Len(dispatched)
    /\ ~add_cmd_rejects(AfterCmd, date)
    /\ cmds' = add_cmd(cmds, i_cmd, [AfterCmd EXCEPT !.uid = nuid])
    /\ nuid' = nuid + 1
    /\ UNCHANGED <<i_cmd, date, pc, hq, ops, checks, i_check, cmd_dates, hist,
                   states, maneuvers, starcats, characteristics, obsreqs, err,
                   dispatched, ran>>
    /\ UNCHANGED <<starcheck, initial_state, first_run, started, class_order>>

\* sc.obsid = value after run(): StateValue.__set__ at the date the engine
\* was left at
SetStateAfterRun ==
    /\ pc = "done"
    /\ \A i \in 1..Len(hist["obsid"].values) : hist["obsid"].values[i] # AfterObsid
    /\ SetState("obsid", AfterObsid)
    /\ UNCHANGED <<cmds, i_cmd, date, pc, hq, ops, checks, i_check, cmd_dates,
                   maneuvers, starcats, characteristics, obsreqs, err, nuid,
                   dispatched, ran>>
    /\ UNCHANGED <<starcheck, initial_state, first_run, started, class_order>>

NextAfter ==
    \/ Next
    \/ AddCheckAfterRun
    \/ AddCmdAfterRun
    \/ SetStateAfterRun

SpecAfter == InitFair /\ [][NextAfter]_vars


(***************************************************************************)
(* Properties.                                                             *)
(***************************************************************************)
SortedByDate(cs) == \A i, j \in 1..Len(cs) : i < j => cs[i].date <= cs[j].date

\* the value of the last-appended sample among those dated at or before d
LastAsOf(sv, d) ==
    LET le == {i \in 1..Len(sv.dates) : sv.dates[i] <= d}
    IN  IF le = {} THEN None
        ELSE sv.values[CHOOSE i \in le : \A j \in le : j <= i]

\* the checks the check pass has run
RunChecks == {checks[k] : k \in 1..i_check}

\* an event made by a handler of the engine (the load has none of these)
Synthetic(e) == e.action \notin {"", "fake_add_cmd"} \/ e.type = "FAKE"

\* C1: at every step of the main pass (each dispatch, each insertion), and
\* after it, the event list is sorted by date in non-decreasing order.
C1_QueueSorted == SortedByDate(cmds)

\* C1 witness: during the main pass a handler has inserted an event in front
\* of an event of the load.
C1_Witness ==
    /\ pc = "main"
    /\ \E k \in 1..(Len(cmds) - 1) : Synthetic(cmds[k]) /\ ~Synthetic(cmds[k + 1])

\* C2: every insertion made during the main pass lands at an index strictly
\* greater than i_cmd, and leaves the events up to i_cmd as they were.
C2_InsertAfterCurrent ==
    [][(pc = "main" /\ cmds' # cmds) =>
          \E k \in (i_cmd + 1)..Len(cmds') :
              /\ cmds' = InsertAt(cmds, k, cmds'[k])
              /\ SubSeq(cmds', 1, i_cmd) = SubSeq(cmds, 1, i_cmd)
              /\ i_cmd' = i_cmd]_vars

\* C2 witness: an event was inserted between the current event and the end
\* of the list.
C2_Witness ==
    /\ pc = "main"
    /\ i_cmd >= 2
    /\ \E k \in (i_cmd + 1)..(Len(cmds) - 1) : cmds[k].uid > cmds[k + 1].uid

\* C3 (as claimed): add_cmd with a date strictly earlier than the current date
\* ends the run with ValueError and inserts nothing; with a date equal to or
\* later than the current date the event is inserted.
C3_CausalityValueError ==
    [][(pc = "main" /\ ops # <<>> /\ Head(ops).op = "add_cmd") =>
          IF Head(ops).cmd.date < date
          THEN pc' = "aborted" /\ err' = "ValueError" /\ cmds' = cmds
          ELSE pc' = "main" /\ Len(cmds') = Len(cmds) + 1]_vars

\* C4: the event list is ordered by date and, among equal dates, by order of
\* generation: an inserted event stands after every event of the same date
\* that was in the list before it, and before every event of a later date.
C4_EqualDatesKeepGenerationOrder ==
    \A i, j \in 1..Len(cmds) :
        i < j => \/ cmds[i].date < cmds[j].date
                 \/ (cmds[i].date = cmds[j].date /\ cmds[i].uid < cmds[j].uid)

\* C4 witness: an inserted event stands right after a not yet dispatched event
\* of the load that has the same date.
C4_Witness ==
    /\ pc = "main"
    /\ \E k \in (i_cmd + 1)..(Len(cmds) - 1) :
          /\ ~Synthetic(cmds[k])
          /\ Synthetic(cmds[k + 1])
          /\ cmds[k].date = cmds[k + 1].date

\* C5: the dates at which the events are dispatched (the current simulation
\* date at each dispatch) are non-decreasing.
C5_DispatchLeastDateFirst ==
    /\ \A i, j \in 1..Len(dispatched) :
          i < j => dispatched[i].date <= dispatched[j].date
    /\ (pc = "main" /\ dispatched # <<>>) => date = Last(dispatched).date

\* C5 witness: an inserted event was dispatched before an event of the load
\* with a later date.
C5_Witness ==
    \E i, j \in 1..Len(dispatched) :
        /\ i < j
        /\ dispatched[i].uid > dispatched[j].uid
        /\ dispatched[i].date < dispatched[j].date

\* C6: the events dispatched so far are exactly the events up to i_cmd, each
\* once, and when the check pass is reached every event of the list,
\* inserted ones included, has been dispatched.
C6_EveryEventDispatchedOnce ==
    /\ Len(dispatched) = i_cmd
    /\ i_cmd <= Len(cmds)
    /\ \A k \in 1..i_cmd : dispatched[k].uid = cmds[k].uid
    /\ \A i, j \in 1..Len(cmds) : i # j => cmds[i].uid # cmds[j].uid
    /\ pc \in {"checks", "done"} => Len(dispatched) = Len(cmds)

\* C6 witness: the check pass is reached after events inserted by handlers
\* were dispatched.
C6_Witness ==
    /\ pc = "checks"
    /\ \E k \in 1..Len(cmds) : Synthetic(cmds[k]) /\ dispatched[k].uid = cmds[k].uid
    /\ \E k \in 1..Len(cmds) : ~Synthetic(cmds[k])

\* C7: no check is run before the last event is dispatched, and until then
\* every message list is empty; no check is run twice; when run() returns
\* every check has been run exactly once; the messages of a check that has
\* been run never change.
C7_StateInv ==
    /\ pc \in {"init", "main"} =>
          /\ ran = <<>>
          /\ \A k \in 1..Len(checks) : checks[k].messages = <<>>
    /\ ran # <<>> => Len(dispatched) = Len(cmds)
    /\ \A i, j \in 1..Len(ran) : i # j => ran[i].cid # ran[j].cid
    /\ \A k \in (i_check + 1)..Len(checks) : checks[k].messages = <<>>
    /\ pc = "done" =>
          \A k \in 1..Len(checks) :
              Cardinality({i \in 1..Len(ran) : ran[i].cid = checks[k].cid}) = 1

C7_ChecksRunOnceAfterMainPass ==
    /\ []C7_StateInv
    /\ [][\A k \in 1..i_check :
             /\ k <= Len(checks')
             /\ checks'[k] = checks[k]]_vars

\* C7 witness: run() has returned with a check made before run() and a check
\* made by a handler, both run and one carrying a message.
C7_Witness ==
    /\ pc = "done"
    /\ \E c \in RunChecks : c.name = "attitude_consistent_with_obsreq"
    /\ \E c \in RunChecks : c.obsid = None
    /\ \E c \in RunChecks : c.messages # <<>>

\* C8: the checks are run in ascending order of their date, checks of equal
\* date in the order of their creation, and each is run with the current
\* date set to its own date.
C8_ChecksRunInDateOrder ==
    /\ \A i, j \in 1..Len(ran) :
          i < j => \/ ran[i].date < ran[j].date
                   \/ (ran[i].date = ran[j].date /\ ran[i].cid < ran[j].cid)
    /\ \A i \in 1..Len(ran) :
          \E k \in 1..Len(checks) :
              checks[k].cid = ran[i].cid /\ checks[k].date = ran[i].date

\* C8 witness: the checks were run in an order that is not the order of their
\* creation, two of them with the same date.
C8_Witness ==
    /\ pc = "done"
    /\ \E i, j \in 1..Len(ran) : i < j /\ ran[i].cid > ran[j].cid
    /\ \E i, j \in 1..Len(ran) : i < j /\ ran[i].date = ran[j].date

\* C9: reading a state variable at the current date, or at any date the
\* caller may set, returns the value of the last-appended sample among those
\* dated at or before that date, and None when there is none.
C9_GetIsLastSampleAsOfDate ==
    \A n \in StateNames :
        \A d \in ReadDates \cup {date} :
            StateValue_get(hist[n], d) = LastAsOf(hist[n], d)

\* C9 witness: a variable holds two samples of the current date with
\* different values, and another variable has no sample as of the current date.
C9_Witness ==
    /\ \E n \in StateNames :
          LET sv == hist[n]
          IN  /\ Len(sv.dates) >= 2
              /\ sv.dates[Len(sv.dates)] = date
              /\ sv.dates[Len(sv.dates) - 1] = date
              /\ sv.values[Len(sv.dates)] # sv.values[Len(sv.dates) - 1]
              /\ Get(n) = sv.values[Len(sv.dates)]
    /\ \E n \in StateNames : Get(n) = None

\* the dither parameters as of date d are one of the standard sets
StandardDitherAsOf(d) ==
    \/ /\ allclose(LastAsOf(hist["dither_period_pitch"], d), PeriodPitchStdLarge)
       /\ allclose(LastAsOf(hist["dither_period_yaw"], d), PeriodYawStdLarge)
       /\ allclose(LastAsOf(hist["dither_ampl_pitch"], d), AmplStdLarge)
       /\ allclose(LastAsOf(hist["dither_ampl_yaw"], d), AmplStdLarge)
    \/ /\ allclose(LastAsOf(hist["dither_period_pitch"], d), PeriodPitchStd)
       /\ allclose(LastAsOf(hist["dither_period_yaw"], d), PeriodYawStd)
       /\ allclose(LastAsOf(hist["dither_ampl_pitch"], d), AmplStd)
       /\ allclose(LastAsOf(hist["dither_ampl_yaw"], d), AmplStd)

\* C10: a check that has been run judged the state as of its own date: the
\* samples dated at or before the check's date count, whenever they were
\* written, and the samples dated after it do not.
C10_CheckReadsStateAsOfItsDate ==
    \A c \in RunChecks :
        /\ c.name = "standard_dither" =>
              (c.messages = <<>> <=> StandardDitherAsOf(c.date))
        /\ c.name = "large_dither_cmd_sequence" =>
              (c.not_applicable <=>
                  /\ LastAsOf(hist["dither_ampl_pitch"], c.date) < LargeDitherAmpl
                  /\ LastAsOf(hist["dither_ampl_yaw"], c.date) < LargeDitherAmpl)

\* C10 witness: a check with date t was run and warned because of a
\* non-standard dither sample that an event wrote after the check was made
\* and that is dated at or before t, while a standard sample dated after t
\* is in the history.
C10_Witness ==
    \E c \in RunChecks :
        /\ c.name = "standard_dither"
        /\ c.messages # <<>>
        /\ LET sv == hist["dither_ampl_pitch"]
           IN  /\ \E i \in 2..Len(sv.dates) :
                     sv.dates[i] <= c.date /\ sv.values[i] \notin {AmplStd, AmplStdLarge}
               /\ \E i \in 2..Len(sv.dates) :
                     sv.dates[i] > c.date /\ sv.values[i] = AmplStd

\* C11: when the initial date is not later than the date of the first event,
\* the sample dates of every state variable are non-decreasing in the order
\* in which the samples were appended, at every point of the run.
C11_HistoryDatesNonDecreasing ==
    (cmds = <<>> \/ states[1].date <= cmds[1].date) =>
        \A n \in StateNames :
            \A i, j \in 1..Len(hist[n].dates) :
                i < j => hist[n].dates[i] <= hist[n].dates[j]

\* C11 witness: the initial date is not later than the first event, and a
\* variable holds two samples of one date followed by a sample of a later date.
C11_Witness ==
    /\ cmds # <<>>
    /\ states[1].date <= cmds[1].date
    /\ \E n \in StateNames :
          /\ Len(hist[n].dates) >= 3
          /\ hist[n].dates[1] = hist[n].dates[2]
          /\ hist[n].dates[2] < hist[n].dates[3]

\* the command-sequence checks that were run and searched their windows
SequenceChecksRun ==
    {c \in RunChecks :
        /\ c.name \in {"large_dither_cmd_sequence", "fake_cmd_sequence"}
        /\ ~c.not_applicable}

\* the cmd_sequence and the base time of a command-sequence check
SequenceOf(c) ==
    IF c.name = "fake_cmd_sequence" THEN fake_cmd_sequence ELSE cmd_sequence

BaseTimeOf(c) ==
    IF c.name = "fake_cmd_sequence" THEN c.date
    ELSE maneuvers[LastAsOf(hist["maneuver"], c.date)].final.date - BaseTimeLead

\* the events the check counted as matches of the triple for tlmsid
MatchedFor(c, tlmsid) ==
    {k \in 1..Len(cmds) :
        /\ cmds[k].tlmsid = tlmsid
        /\ \E i \in 1..Len(c.matches) : c.matches[i] = cmds[k].uid}

\* the messages the check holds for the triple for tlmsid
MessagesFor(c, tlmsid) ==
    {i \in 1..Len(c.messages) : c.messages[i].text = tlmsid}

\* C12: for each triple of a command-sequence check that was run: one
\* counted match leaves no message; no match leaves exactly one message, an
\* error naming the expected time; two or more matches leave exactly one
\* message, a warning stating the number of matches.
C12_OneMessagePerMismatch ==
    \A c \in SequenceChecksRun :
        \A t \in 1..Len(SequenceOf(c)) :
            LET triple == SequenceOf(c)[t]
                n == Cardinality(MatchedFor(c, triple.tlmsid))
                ms == MessagesFor(c, triple.tlmsid)
            IN  /\ n = 1 => ms = {}
                /\ n # 1 =>
                      /\ Cardinality(ms) = 1
                      /\ \A i \in ms :
                            /\ c.messages[i].category =
                                  (IF n = 0 THEN "error" ELSE "warning")
                            /\ c.messages[i].n = n
                            /\ c.messages[i].time = BaseTimeOf(c) + triple.time_offset

\* C12 witness: a command-sequence check was run with one triple not
\* matched, one matched once and one matched twice.
C12_Witness ==
    \E c \in SequenceChecksRun :
        \A n \in 0..2 :
            \E t \in 1..Len(SequenceOf(c)) :
                Cardinality(MatchedFor(c, SequenceOf(c)[t].tlmsid)) = n

\* C13 (as claimed): for each triple of a command-sequence check that was
\* run, the events counted as matches are exactly the events of the final
\* timeline that satisfy the matcher and are dated inside the closed window
\* [base_time + offset - tolerance, base_time + offset + tolerance].
C13_MatchesAreTheEventsInWindow ==
    \A c \in SequenceChecksRun :
        \A t \in 1..Len(SequenceOf(c)) :
            LET triple == SequenceOf(c)[t]
                time == BaseTimeOf(c) + triple.time_offset
            IN  MatchedFor(c, triple.tlmsid) =
                    {k \in 1..Len(cmds) :
                        /\ cmds[k].tlmsid = triple.tlmsid
                        /\ time - triple.tolerance <= cmds[k].date
                        /\ cmds[k].date <= time + triple.tolerance}

\* C14: a large-dither check that was run is not applicable exactly when
\* both dither amplitudes as of its date are below 30 arcsec, and then it
\* holds no match and no message; otherwise every triple of its sequence
\* was searched: it left a match or a message.
C14_LargeDitherApplicability ==
    \A c \in RunChecks :
        c.name = "large_dither_cmd_sequence" =>
            LET small == /\ LastAsOf(hist["dither_ampl_pitch"], c.date) < LargeDitherAmpl
                         /\ LastAsOf(hist["dither_ampl_yaw"], c.date) < LargeDitherAmpl
            IN  /\ c.not_applicable = small
                /\ small => c.messages = <<>> /\ c.matches = <<>>
                /\ ~small =>
                      \A t \in 1..Len(cmd_sequence) :
                          \/ MatchedFor(c, cmd_sequence[t].tlmsid) # {}
                          \/ MessagesFor(c, cmd_sequence[t].tlmsid) # {}

\* C14 witness: a large-dither check was run with the pitch amplitude at 30
\* arcsec or more and the yaw amplitude below, and holds a message for each
\* triple.
C14_Witness ==
    \E c \in RunChecks :
        /\ c.name = "large_dither_cmd_sequence"
        /\ LastAsOf(hist["dither_ampl_pitch"], c.date) >= LargeDitherAmpl
        /\ LastAsOf(hist["dither_ampl_yaw"], c.date) < LargeDitherAmpl
        /\ ~c.not_applicable
        /\ Len(c.messages) = Len(cmd_sequence)

\* C15 (as claimed): when the main pass has ended, the record of every
\* maneuver command dispatched has final.obsid set, and it equals the obsid
\* in effect at the final date of that maneuver.
C15_EveryManeuverGetsFinalObsid ==
    pc \in {"checks", "done"} =>
        \A k \in 1..Len(maneuvers) :
            /\ maneuvers[k].final.has_obsid
            /\ maneuvers[k].final.obsid =
                  LastAsOf(hist["obsid"], maneuvers[k].final.date)

\* the maneuver commands dispatched so far, in the order of their dispatch
ManeuverCmdsDispatched ==
    SelectSeq(SubSeq(cmds, 1, i_cmd), LAMBDA e : e.tlmsid = "AOMANUVR")

\* C16: between handlers, and after the run, sc.maneuvers (the values of the
\* maneuver history) holds one record for each maneuver command dispatched,
\* in the order of the commands, each with its initial entry at the date of
\* the command and its final entry at the date of the last attitude sample.
C16_OneRecordPerManeuver ==
    (pc \in {"main", "checks", "done"} /\ hq = <<>> /\ ops = <<>>) =>
        LET recs == hist["maneuver"].values
        IN  /\ Len(recs) = Len(ManeuverCmdsDispatched)
            /\ \A k \in 1..Len(recs) :
                  /\ recs[k] \in 1..Len(maneuvers)
                  /\ \A j \in 1..Len(recs) : j # k => recs[j] # recs[k]
                  /\ maneuvers[recs[k]].initial.date = ManeuverCmdsDispatched[k].date
                  /\ maneuvers[recs[k]].final.date =
                        maneuvers[recs[k]].initial.date + maneuvers[recs[k]].dur

\* C16 witness: the run is over, two maneuver commands were dispatched and
\* the maneuver history holds their two records.
C16_Witness ==
    /\ pc = "done"
    /\ Len(ManeuverCmdsDispatched) = 2
    /\ Len(hist["maneuver"].values) = 2
    /\ maneuvers[hist["maneuver"].values[1]].dur # maneuvers[hist["maneuver"].values[2]].dur

\* C17 (as claimed): once a second engine has been made and run, the state
\* histories read through the first engine are what they were when its run
\* ended.
C17_FirstEngineHistoriesUntouched ==
    first_run.done => hist = first_run.hist

\* C18 (as claimed): a second engine given the arguments of the first ends
\* its run as the first did, with the same state histories and the same
\* checks, in the same order with the same messages.
C18_SecondRunIdentical ==
    (first_run.done /\ pc \in {"done", "aborted"}) =>
        /\ pc = "done"
        /\ hist = first_run.hist
        /\ checks = first_run.checks

\* C19: a fault raised by a handler during the main pass ends run() at
\* once with that fault: at that step the run is aborted with the fault
\* recorded, no check has been run and no check holds a message; and after
\* a fault nothing happens any more: no later event is dispatched, no
\* check is run.
C19_FaultAbortsRun ==
    /\ [][(pc = "main" /\ err' # err) =>
             /\ pc' = "aborted"
             /\ err' # ""
             /\ ran' = <<>>
             /\ i_check' = 0
             /\ \A k \in 1..Len(checks') : checks'[k].messages = <<>>
             /\ dispatched' = dispatched
             /\ cmds' = cmds]_vars
    /\ [][err = ""]_vars

\* C19 witness: a handler fault ended the run while events were left to
\* dispatch and a check was waiting.
C19_Witness ==
    /\ pc = "aborted"
    /\ ran = <<>>
    /\ i_cmd < Len(cmds)
    /\ checks # <<>>

\* C20: when initial_state holds a key that is not a declared state
\* variable the constructor fails with AttributeError and nothing is run;
\* otherwise the constructor does not fail.
C20_UnknownInitialStateKeyFails ==
    IF \E kv \in initial_state : kv[1] \notin StateNames \cup {"date"}
    THEN /\ pc = "init_failed"
         /\ err = "AttributeError"
         /\ i_cmd = 0
         /\ dispatched = <<>>
         /\ ran = <<>>
         /\ checks = <<>>
    ELSE pc # "init_failed"

\* C20 witness: the constructor failed on an initial_state that holds a
\* declared key and an undeclared one, with a command in the list.
C20_Witness ==
    /\ pc = "init_failed"
    /\ cmds # <<>>
    /\ \E kv \in initial_state : kv[1] \in StateNames
    /\ \E kv \in initial_state : kv[1] \notin StateNames

\* the attitude-consistency checks the check pass has run
AttitudeChecksRun ==
    {c \in RunChecks : c.name = "attitude_consistent_with_obsreq"}

FarTargets(c) ==
    {e \in obsreqs : /\ e.obsid = GetAt("obsid", c.date)
                     /\ e.target_ra
                     /\ e.sep > SepTolerance}

\* C22 (as claimed): without characteristics the comparison is still made:
\* an attitude-consistency check that has run for an obsid whose separation
\* exceeds the tolerance holds exactly one message, an error, as it does
\* with characteristics.
C22_ComparisonWithoutCharacteristics ==
    characteristics = None =>
        \A c \in AttitudeChecksRun :
            FarTargets(c) # {} =>
                /\ Len(c.messages) = 1
                /\ c.messages[1].category = "error"

\* C23 (as claimed): no check ends the check pass with a fault: once a
\* check has been started no exception is recorded, and when run() has
\* returned every check has been run.
C23_NoFaultFromACheck ==
    /\ (ran # <<>> => err = "")
    /\ (pc = "done" => i_check = Len(checks) /\ Len(ran) = Len(checks))

\* the dates at which some state variable was written
WrittenDates == UNION {{hist[n].dates[i] : i \in 1..Len(hist[n].dates)} : n \in StateNames}

\* C24 (as claimed): at every point of a run the dates of the snapshot
\* timeline are strictly increasing, and the timeline holds exactly one
\* snapshot for each date at which a state variable was written.
C24_SnapshotDatesStrictlyIncreasing ==
    /\ \A i, j \in 1..Len(states) : i < j => states[i].date < states[j].date
    /\ {states[i].date : i \in 1..Len(states)} = WrittenDates
    /\ Len(states) = Cardinality(WrittenDates)

\* C25 (as claimed): at every point of a run every snapshot holds, for
\* every state variable, the value of the variable as of the date of the
\* snapshot: the last-appended sample dated at or before it, or None.
C25_SnapshotsAgreeWithHistories ==
    \A k \in 1..Len(states) :
        \A n \in StateNames :
            states[k].v[n] = LastAsOf(hist[n], states[k].date)

\* the registered handler classes
RegisteredHandlers == {CMD_ACTION_CLASSES[i] : i \in 1..Len(CMD_ACTION_CLASSES)}

\* the handlers started for the event being dispatched are the handlers
\* whose trigger matches it, each started once
MatchingHandlersStartedOnce ==
    LET matching == {h \in RegisteredHandlers : trigger(h, cmds[i_cmd])}
        starts == {i \in 1..Len(started) : started[i].uid = cmds[i_cmd].uid}
    IN  /\ cmds[i_cmd].uid = Last(dispatched).uid
        /\ {started[i].h : i \in starts} = matching
        /\ Cardinality(starts) = Cardinality(matching)

\* the dispatch of the current event is over: every handler the dispatch
\* selected has been started, and none has ended the run
DispatchOver == i_cmd > 0 /\ hq = <<>> /\ pc # "aborted"

\* C26: for each dispatched event every registered handler whose trigger
\* matches the event is run exactly once, not only the first that matches,
\* and a handler whose trigger does not match is not run.  A handler is
\* only ever started for the event being dispatched, no event is
\* dispatched before the dispatch of the one before is over, and when the
\* dispatch of an event is over the handlers started for it are the
\* matching ones, each once.
C26_EveryMatchingHandlerRunsOnce ==
    [][ /\ started' # started =>
            /\ pc = "main"
            /\ Len(started') = Len(started) + 1
            /\ SubSeq(started', 1, Len(started)) = started
            /\ Last(started').uid = cmds[i_cmd].uid
        /\ dispatched' # dispatched => (hq = <<>> /\ started' = started)
        /\ (DispatchOver' /\ (dispatched' # dispatched \/ hq # <<>>))
              => MatchingHandlersStartedOnce'
      ]_vars

\* C26 witness: the dispatch of an event that two handlers match is over,
\* and both have been started for it
C26_Witness ==
    /\ DispatchOver
    /\ \E i, j \in 1..Len(started) :
          /\ started[i] = [uid |-> cmds[i_cmd].uid, h |-> "DitherEnableCmd"]
          /\ started[j] = [uid |-> cmds[i_cmd].uid, h |-> "FakeDitherCmd"]
    /\ Get("dither_enabled") = True

\* the place of a handler in the order of registration
RegistrationIndex(h) == CHOOSE i \in 1..Len(CMD_ACTION_CLASSES) : CMD_ACTION_CLASSES[i] = h

\* C27 (as claimed): the handlers that match one event are invoked in the
\* order of their registration.
C27_HandlersInRegistrationOrder ==
    \A i, j \in 1..Len(started) :
        (i < j /\ started[i].uid = started[j].uid)
            => RegistrationIndex(started[i].h) < RegistrationIndex(started[j].h)

\* the keys of an OrderedDict filled in the order of vs: the values of vs,
\* each at the place of its first occurrence
RECURSIVE FirstOccurrences(_)
FirstOccurrences(vs) ==
    IF vs = <<>> THEN <<>>
    ELSE LET front == FirstOccurrences(SubSeq(vs, 1, Len(vs) - 1))
         IN  IF \E i \in 1..Len(front) : front[i] = Last(vs)
             THEN front
             ELSE Append(front, Last(vs))

\* the checks of cs recorded under obsid, in the order of cs
RECURSIVE ChecksOf(_, _)
ChecksOf(cs, obsid) ==
    IF cs = <<>> THEN <<>>
    ELSE (IF Head(cs).obsid = obsid THEN <<Head(cs)>> ELSE <<>>) \o ChecksOf(Tail(cs), obsid)

\* Spacecraft.get_checks_by_obsid: one empty list per value of the obsid
\* history, then checks[check.obsid].append(check) for every check; the
\* lookup raises KeyError for an obsid the history does not hold
get_checks_by_obsid ==
    LET keys == FirstOccurrences(hist["obsid"].values)
    IN  IF \E k \in 1..Len(checks) : \A i \in 1..Len(keys) : keys[i] # checks[k].obsid
        THEN [exc |-> "KeyError", items |-> <<>>]
        ELSE [exc |-> "",
              items |-> [i \in 1..Len(keys) |->
                            [obsid |-> keys[i], checks |-> ChecksOf(checks, keys[i])]]]

\* the place of the check of creation index cid in the order of execution
RanIndex(cid) == CHOOSE i \in 1..Len(ran) : ran[i].cid = cid

\* C28 (as claimed): after a completed run get_checks_by_obsid() succeeds,
\* every executed check is found exactly once, in the group of the obsid
\* recorded on it at its creation, and the checks of a group are in the
\* order of their execution.
C28_ChecksGroupedByObsid ==
    pc = "done" =>
        LET by_obsid == get_checks_by_obsid
            items == by_obsid.items
            places(cid) == {<<i, j>> \in (1..Len(items)) \X (1..Len(checks)) :
                               j <= Len(items[i].checks) /\ items[i].checks[j].cid = cid}
        IN  /\ by_obsid.exc = ""
            /\ \A k \in 1..Len(checks) :
                  /\ Cardinality(places(checks[k].cid)) = 1
                  /\ \A p \in places(checks[k].cid) : items[p[1]].obsid = checks[k].obsid
            /\ \A i \in 1..Len(items) :
                  \A j1, j2 \in 1..Len(items[i].checks) :
                      j1 < j2 => RanIndex(items[i].checks[j1].cid)
                                     < RanIndex(items[i].checks[j2].cid)

\* C29: for every finite input run() terminates: once called it returns
\* or ends with an exception.
C29_RunTerminates == (pc = "main") ~> (pc \in {"done", "aborted"})

\* C29 witness: a run has returned whose main pass dispatched events that
\* handlers inserted into the list and whose check pass ran a check
C29_Witness ==
    /\ pc = "done"
    /\ Len(dispatched) = Len(cmds)
    /\ \E i \in 1..Len(cmds) : Synthetic(cmds[i])
    /\ ran # <<>>

\* C30 (as claimed): once run() has returned nothing changes the event
\* list, the histories, the snapshots or the checks of the engine.
C30_FinalizedIsImmutable ==
    [][pc = "done" =>
          /\ cmds' = cmds
          /\ hist' = hist
          /\ states' = states
          /\ checks' = checks]_vars

(***************************************************************************)
(* A second load.  The command that disables the automatic transition to   *)
(* normal point mode follows the maneuver command of its date; an engine   *)
(* made with an initial date later than the load meets the dither command  *)
(* after it has seeded the histories; and a second maneuver command, after *)
(* a command of large dither parameters, comes within 8 minutes of the end *)
(* of the first maneuver.                                                  *)
(***************************************************************************)
LoadB ==
    << [Ev(0, "MP_OBSID", "COAOSQID", "") EXCEPT !.id = 100],
       Ev(0, "COMMAND_SW", "AONM2NPE", ""),
       Ev(0, "MP_STARCAT", "AOSTRCAT", ""),
       Ev(0, "COMMAND_SW", "AODSDITH", ""),
       Ev(0, "COMMAND_SW", "AOMANUVR", ""),
       Ev(0, "COMMAND_SW", "AONM2NPD", ""),
       [Ev(30, "MP_DITHER", "AODITPAR", "") EXCEPT
            !.coefp = 40, !.coefy = 8, !.ratep = 26470, !.ratey = 10000],
       Ev(30, "COMMAND_SW", "AOMANUVR", "") >>

\* the initial_state arguments given with the second load: none, or a date
\* later than the load
InitialStatesB == { {}, {<<"date", 30>>} }

\* Spacecraft.__init__ with a sub-list of the second load
InitB ==
    /\ \E sel \in SUBSET (1..Len(LoadB)) :
          /\ Cardinality(sel) <= MaxCmdsB
          /\ cmds = WithUids(SubList(LoadB, sel, 1))
    /\ nuid = Len(cmds) + 1
    /\ initial_state \in InitialStatesB
    /\ starcheck \in BOOLEAN
    /\ date = state0_date(initial_state)
    /\ characteristics = True
    /\ obsreqs = ORList
    /\ hist = InitHist(date, initial_state)
    /\ states = InitStates(date, initial_state)
    /\ i_cmd = 0
    /\ pc = "init"
    /\ err = ""
    /\ hq = <<>>
    /\ ops = <<>>
    /\ checks = <<>>
    /\ i_check = 0
    /\ cmd_dates = <<>>
    /\ maneuvers = <<>>
    /\ starcats = <<>>
    /\ dispatched = <<>>
    /\ ran = <<>>
    /\ first_run = NoFirstRun
    /\ started = <<>>
    /\ class_order = <<>>

SpecB == InitB /\ [][Next]_vars

\* C31 (as claimed): a write to a state variable at a date earlier than the
\* date of the variable's last sample appends nothing to its history: every
\* sample a step appends is dated at or after the sample before it.
C31_OutOfOrderWriteAppendsNothing ==
    [][\A n \in StateNames :
          LET old == hist[n]
              new == hist'[n]
          IN  (Len(old.dates) > 0 /\ Len(new.dates) = Len(old.dates) + 1)
                  => new.dates[Len(new.dates)] >= old.dates[Len(old.dates)]]_vars

\* the history new holds every sample of the history old, in place, with
\* its date and its value
Extends(old, new) ==
    /\ Len(new.dates) >= Len(old.dates)
    /\ Len(new.values) = Len(new.dates)
    /\ SubSeq(new.dates, 1, Len(old.dates)) = old.dates
    /\ SubSeq(new.values, 1, Len(old.values)) = old.values

\* every history only grows at its end, and so do the lists of the maneuver
\* records and of the star catalogs the samples of maneuver and starcat
\* refer to
HistoriesGrow ==
    /\ \A n \in StateNames : Extends(hist[n], hist'[n])
    /\ Len(maneuvers') >= Len(maneuvers)
    /\ Len(starcats') >= Len(starcats)

BeforeCmds ==
    { Ev(0, "COMMAND_SW", "AOENDITH", ""), Ev(30, "", "", "fake_add_cmd"), AfterCmd }

\* self.i_cmd exists once the loop of run() has bound it
i_cmd_is_set == pc # "init"

AddCmdBeforeRun ==
    /\ pc = "init"
    /\ \E cmd \in BeforeCmds :
          IF add_cmd_rejects(cmd, date)
          THEN pc' = "add_cmd_failed" /\ err' = add_cmd_error /\ UNCHANGED <<cmds, nuid>>
          ELSE IF ~i_cmd_is_set
          THEN pc' = "add_cmd_failed" /\ err' = "AttributeError" /\ UNCHANGED <<cmds, nuid>>
          ELSE /\ cmds' = add_cmd(cmds, i_cmd, [cmd EXCEPT !.uid = nuid])
               /\ nuid' = nuid + 1
               /\ UNCHANGED <<pc, err>>
    /\ UNCHANGED <<i_cmd, date, hq, ops, checks, i_check, cmd_dates, hist,
                   states, maneuvers, starcats, characteristics, obsreqs,
                   dispatched, ran>>
    /\ UNCHANGED <<starcheck, initial_state, first_run, started, class_order>>

NextCaller ==
    \/ Next
    \/ AddCmdBeforeRun

SpecCaller == InitFair /\ [][NextCaller]_vars

\* the list cs with the event cmd put after the last event of cs dated at
\* or before it
InsertedFromStart(cs, cmd) ==
    LET before == SelectSeq(cs, LAMBDA e : e.date <= cmd.date)
        after == SelectSeq(cs, LAMBDA e : e.date > cmd.date)
    IN  before \o <<cmd>> \o after

\* C33 (as claimed): add_cmd or add_action called after the construction
\* and before run() succeeds, and puts the event at its position by date,
\* found from the start of the list, after the events of the same date.
C33_AddCmdBeforeRunInserts ==
    [][(pc = "init" /\ (pc' = "add_cmd_failed" \/ cmds' # cmds))
          => /\ pc' = "init"
             /\ err' = ""
             /\ \E cmd \in BeforeCmds :
                   cmds' = InsertedFromStart(cmds, [cmd EXCEPT !.uid = nuid])]_vars

\* the actions a maneuver command schedules
ManeuverActions ==
    {"set_qatt", "set_pitch", "set_maneuver_obsid", "auto_npm_with_star_checking"}

\* what the claim has a maneuver command dated t0 with N samples insert:
\* the action and the date of each event, in the order of the insertions
ExpectedManeuverEvents(t0, N, auto) ==
    [j \in 1..(2 * N + 1 + (IF auto THEN 1 ELSE 0)) |->
        IF j <= 2 * N
        THEN << (IF j % 2 = 1 THEN "set_qatt" ELSE "set_pitch"),
                t0 + ((j - 1) \div 2) * ManStep >>
        ELSE << (IF j = 2 * N + 1 THEN "set_maneuver_obsid"
                                  ELSE "auto_npm_with_star_checking"),
                t0 + (N - 1) * ManStep >>]

\* the action and the date of the events the statements os insert, in order
PlannedInsertions(os) ==
    LET adds == SelectSeq(os, LAMBDA o : o.op = "add_cmd")
    IN  [j \in 1..Len(adds) |-> << adds[j].cmd.action, adds[j].cmd.date >>]

\* the step on which the handler of a maneuver command begins
ManeuverHandlerStarts ==
    /\ pc = "main"
    /\ ops = <<>>
    /\ hq # <<>>
    /\ Head(hq) = "ManeuverCmd"
    /\ Len(started') = Len(started) + 1

\* the handler of a maneuver command dated t0 schedules, for N samples, a
\* set_qatt and a set_pitch at each sample's date, in sample order, then a
\* set_maneuver_obsid at the last date, then an auto_npm_with_star_checking
\* at the last date iff auto_npm_transition is true as of t0 (a propagation
\* that raises gives no sample)
C34_Scheduled ==
    [][(ManeuverHandlerStarts /\ ~attitudes_raises) =>
          \E N \in 1..MaxSamples :
              PlannedInsertions(ops') =
                  ExpectedManeuverEvents(date, N, Get("auto_npm_transition") = True)]_vars

\* none of the insertions of the handler of a maneuver command is refused
C34_Inserted ==
    (pc = "main" /\ ops # <<>> /\ Head(ops).op = "add_cmd"
        /\ started # <<>> /\ Last(started).h = "ManeuverCmd")
        => ~add_cmd_rejects(Head(ops).cmd, date)

\* when the main pass is over, every event a maneuver command scheduled has
\* been dispatched
C34_DispatchedInTheSamePass ==
    pc \in {"checks", "done", "aborted"} =>
        \A i \in 1..Len(cmds) :
            cmds[i].action \in ManeuverActions =>
                \E k \in 1..Len(dispatched) : dispatched[k].uid = cmds[i].uid

\* C34 (as claimed): a maneuver command dated t0 whose propagation gives
\* N >= 1 samples inserts, in sample order, a set_qatt then a set_pitch at
\* each sample's date, then one set_maneuver_obsid at the last sample's date,
\* then one auto_npm_with_star_checking at that date iff auto_npm_transition
\* is true as of t0; and all of them are dispatched later in the same pass.
C34_ManeuverSchedulesItsActions ==
    /\ C34_Scheduled
    /\ []C34_Inserted
    /\ []C34_DispatchedInTheSamePass

\* the star-catalog actions the automatic transition schedules
StarCatalogActions ==
    {"aca.set_stars", "aca.identify_starcat", "aca.acquisition_stars",
     "aca.guide_stars", "aca.mon_stars", "aca.fid_lights"}

\* the dates of the auto_npm_with_star_checking actions whose handler has
\* been started and has ended, with a return or with an exception
AutoNpmDatesOver ==
    { cmds[i].date : i \in { j \in 1..Len(cmds) :
        \E k \in 1..Len(started) :
            /\ started[k].uid = cmds[j].uid
            /\ started[k].h = "AutoNpmWithStarCheckingAction"
            /\ (k < Len(started) \/ ops = <<>>) } }

\* C35 (as claimed): once an auto_npm_with_star_checking action dated t has
\* been handled, pcad_mode has the sample NPNT at t; an
\* attitude_consistent_with_obsreq check dated t exists iff the obsid as of t
\* is below 38000; a standard_dither and a large_dither_cmd_sequence check
\* dated t + 8 min exist in every case; and each star-catalog action has been
\* inserted at t.
C35_AutoNpmSchedules ==
    \A t \in AutoNpmDatesOver :
        /\ \E s \in 1..Len(hist["pcad_mode"].dates) :
              hist["pcad_mode"].dates[s] = t /\ hist["pcad_mode"].values[s] = NPNT
        /\ (\E c \in 1..Len(checks) :
               checks[c].name = "attitude_consistent_with_obsreq" /\ checks[c].date = t)
              <=> (GetAt("obsid", t) # None /\ GetAt("obsid", t) < ObsReqLimit)
        /\ \A name \in {"standard_dither", "large_dither_cmd_sequence"} :
              \E c \in 1..Len(checks) :
                  checks[c].name = name /\ checks[c].date = t + NpmCheckDelay
        /\ \A a \in StarCatalogActions :
              \E i \in 1..Len(cmds) : cmds[i].action = a /\ cmds[i].date = t

\* LargeDitherCmdSequenceCheck.run goes on to the command sequence: the
\* dither amplitude as of the check's date is large in an axis
LargeDitherApplicable(c) ==
    ~(GetAt("dither_ampl_pitch", c.date) < LargeDitherAmpl
      /\ GetAt("dither_ampl_yaw", c.date) < LargeDitherAmpl)

\* C36 (as claimed): the base time of every applicable
\* large_dither_cmd_sequence check is the final date of the maneuver whose
\* end scheduled the check, 8 minutes before the check's date, less 10 s,
\* whatever was dispatched between the end of that maneuver and the check's
\* date.
C36_BaseTimeIsNpmStart ==
    pc \in {"checks", "done"} =>
        \A c \in 1..Len(checks) :
            (checks[c].name = "large_dither_cmd_sequence"
                /\ LargeDitherApplicable(checks[c]))
            => /\ GetAt("maneuver", checks[c].date) # None
               /\ maneuvers[GetAt("maneuver", checks[c].date)].final.date - BaseTimeLead
                      = (checks[c].date - NpmCheckDelay) - BaseTimeLead

\* the handlers of the star-catalog actions
StarCatalogHandlers ==
    {"SetStars", "IdentifyStarcat", "AcquisitionStars", "GuideStars", "MonStars"}

\* C37 (as claimed): an engine made with starcheck=True skips the star
\* catalog checks: no star-catalog action is ever in its event list and no
\* handler of such an action is ever started.
C37_StarcheckSkipsStarCatalog ==
    starcheck =>
        /\ \A i \in 1..Len(cmds) : cmds[i].action \notin StarCatalogActions
        /\ \A k \in 1..Len(started) : started[k].h \notin StarCatalogHandlers

\* C38 (as claimed): every action event a handler schedules with add_action
\* is matched by the trigger of at least one registered handler.
C38_ScheduledActionsHaveHandlers ==
    [][(pc = "main" /\ ops # <<>> /\ Head(ops).op = "add_cmd"
           /\ Head(ops).cmd.action # "" /\ Len(cmds') = Len(cmds) + 1)
          => SelectHandlers(CMD_ACTION_CLASSES, Head(ops).cmd) # <<>>]_vars

\* C39: while the checks run no event is added to, removed from or moved in
\* the event list, and the array of dates made at the end of the main pass
\* holds, index by index, the dates of the events of the list.
C39_CheckPassLeavesEventList ==
    /\ [][pc = "checks" => (cmds' = cmds /\ cmd_dates' = cmd_dates)]_vars
    /\ [](pc = "checks" => cmd_dates = SeqDates(cmds))

\* C39 witness: the check pass has run a command-sequence check that found
\* events of a list the handlers have inserted events into, and has checks
\* left to run
C39_Witness ==
    /\ pc = "checks"
    /\ i_check < Len(checks)
    /\ \E k \in 1..i_check : checks[k].matches # <<>>
    /\ \E i \in 1..Len(cmds) : Synthetic(cmds[i])
    /\ cmd_dates = SeqDates(cmds)

\* C40: from its creation on, and so when it runs, the obsid recorded on
\* every attitude_consistent_with_obsreq check at its creation is the obsid
\* the engine gives as of the check's date, which is what the check reads
\* when it runs.
C40_RecordedObsidIsObsidAtCheckDate ==
    \A c \in 1..Len(checks) :
        checks[c].name = "attitude_consistent_with_obsreq"
            => checks[c].obsid = GetAt("obsid", checks[c].date)

\* C40 witness: an attitude check made for one obsid has been run in a run
\* whose commands set another obsid after the check's date
C40_Witness ==
    /\ pc = "done"
    /\ \E c \in 1..Len(checks) :
          /\ checks[c].name = "attitude_consistent_with_obsreq"
          /\ checks[c].obsid # None
          /\ \E k \in 1..Len(ran) : ran[k].cid = checks[c].cid
          /\ \E s \in 1..Len(hist["obsid"].dates) :
                /\ hist["obsid"].dates[s] > checks[c].date
                /\ hist["obsid"].values[s] # checks[c].obsid

====
